---- MODULE Spec2Model ----
(***************************************************************************)
(* agentx: the conversation panel that renders ACP session updates         *)
(* (src/src/conversation_acp.rs) and the stateful tool-call item view      *)
(* (src/src/components/tool_call_item.rs).                                 *)
(*                                                                         *)
(* Spec      ConversationPanelAcp: the mock conversation is loaded at       *)
(*           construction and render() maps the session updates, one at a  *)
(*           time and in order, to the elements of the transcript.         *)
(* SpecView  ToolCallItemView: tool-call entities and the operations that  *)
(*           mutate them.                                                  *)
(* SpecDiff  FileChangeStats::from_diff (components/diff_summary.rs).       *)
(* SpecSummary  DiffSummaryData::from_tool_calls and sorted_files.         *)
(* SpecShown    the DiffSummary component over the tool-call entities.     *)
(* SpecConversation  ConversationPanel (conversation.rs): the fixture's    *)
(*           items mapped to ACP values by render().                       *)
(* SpecConfig   core/config_manager.rs: the user config file.              *)
(* SpecTasks    TaskListDelegate (panels/task_list/types.rs).              *)
(***************************************************************************)
EXTENDS Integers, Sequences, FiniteSets, TLC

VARIABLES
    mock_json,        \* the embedded mock_conversation_acp.json, item by item
    session_updates,  \* ConversationPanelAcp.session_updates
    pc,               \* "idle" | "render" | "panic": position of the panel's render()
    updates,          \* render()'s local Vec of elements collected so far
    children,         \* the children of the v_flex built by the last render()
    views,            \* ToolCallItemView entities: id -> [tool_call, open]
    lastOp,           \* the last ToolCallItemView operation: its name, view and
                      \* argument, the entities it notified (and, for
                      \* set_content, the content it found)
    old_text,         \* FileChangeStats::from_diff: Option<&str> old text
    new_text,         \* FileChangeStats::from_diff: new text
    stats,            \* the FileChangeStats returned, None before the call
    tool_calls,       \* the &[ToolCall] handed to DiffSummaryData::from_tool_calls
    summary,          \* the DiffSummaryData built from them, None before the call
    iteration,        \* the order in which that HashMap yields its keys
    sorted,           \* what sorted_files() returned last, None before the call
    data,             \* DiffSummary.data
    collapsed,        \* DiffSummary.collapsed
    disk,             \* the user data directory and the config file in it
    returned,         \* the last config_manager call: name, disk before, result
    delegate,         \* the TaskListDelegate
    items,            \* ConversationPanel.items, parsed from the fixture
    elements          \* what ConversationPanel::render mapped the items to

panelVars == <<mock_json, session_updates, pc, updates, children>>
viewVars == <<views, lastOp>>
diffVars == <<old_text, new_text, stats>>
summaryVars == <<tool_calls, summary>>
sortVars == <<iteration, sorted>>
shownVars == <<data, collapsed>>
configVars == <<disk, returned>>
taskVars == <<delegate>>
convVars == <<items, elements>>
moreVars == <<sortVars, shownVars, configVars, taskVars, convVars>>
vars == <<panelVars, viewVars, diffVars, summaryVars, moreVars>>

(***************************************************************************)
(* Bounds of the model.                                                    *)
(***************************************************************************)
MaxUpdates == 3     \* longest mock conversation
MaxContent == 2     \* longest tool-call content list

\* Option<T>: None is the empty sequence, Some(x) the one-element sequence.
None == <<>>
Some(x) == <<x>>

RECURSIVE SeqsUpTo(_, _)
SeqsUpTo(S, n) ==
    IF n = 0 THEN {<<>>}
    ELSE LET shorter == SeqsUpTo(S, n - 1)
         IN  shorter \cup {Append(s, x) : s \in {t \in shorter : Len(t) = n - 1}, x \in S}

(***************************************************************************)
(* ACP schema values the model draws its inputs from.                      *)
(***************************************************************************)
ToolCallStatus == {"Pending", "InProgress", "Completed", "Failed"}

ToolCallIds == {"t1", "t2"}

ContentBlocks ==
    { [type |-> "Text", text |-> "hello"],
      [type |-> "Image", mime_type |-> "image/png"] }

ContentChunks == {[content |-> b] : b \in ContentBlocks}

\* A Rust String, kept as runs of one repeated char: n chars of w UTF-8 bytes.
AsciiText == <<[ch |-> "a", w |-> 1, n |-> 300]>>
WideText == <<[ch |-> "U+4E2D", w |-> 3, n |-> 100]>>

\* ContentBlock::Resource with embedded text.
ResourceBlocks ==
    { [type |-> "Resource",
       resource |-> [type |-> "TextResourceContents", uri |-> "file:///notes.txt",
                     text |-> AsciiText]],
      [type |-> "Resource",
       resource |-> [type |-> "TextResourceContents", uri |-> "file:///notes.zh.txt",
                     text |-> WideText]] }

\* The content of a thought: text, or an embedded resource.
ThoughtChunks ==
    {[content |-> b] : b \in {[type |-> "Text", text |-> "hello"]} \cup ResourceBlocks}

ToolCallEvents ==
    { [sessionUpdate |-> "ToolCall", tool_call_id |-> "t1", title |-> "Read file",
       kind |-> "Read", status |-> "Pending", content |-> <<>>],
      [sessionUpdate |-> "ToolCall", tool_call_id |-> "t1", title |-> "Read file",
       kind |-> "Read", status |-> "Failed", content |-> <<>>],
      [sessionUpdate |-> "ToolCall", tool_call_id |-> "t2", title |-> "Edit file",
       kind |-> "Edit", status |-> "Pending", content |-> <<>>] }

\* ToolCallUpdate { tool_call_id, fields }: every field of `fields` is optional.
ToolCallUpdateEvents ==
    { [sessionUpdate |-> "ToolCallUpdate", tool_call_id |-> "t1",
       fields |-> [status |-> None, title |-> None, content |-> None]],
      [sessionUpdate |-> "ToolCallUpdate", tool_call_id |-> "t1",
       fields |-> [status |-> Some("Completed"), title |-> None, content |-> None]],
      [sessionUpdate |-> "ToolCallUpdate", tool_call_id |-> "t1",
       fields |-> [status |-> Some("InProgress"), title |-> Some("Reading"), content |-> None]],
      [sessionUpdate |-> "ToolCallUpdate", tool_call_id |-> "t2",
       fields |-> [status |-> Some("Completed"), title |-> None, content |-> None]] }

PlanEvents ==
    { [sessionUpdate |-> "Plan",
       entries |-> << [content |-> "step", priority |-> "High", status |-> "Pending"] >>],
      [sessionUpdate |-> "Plan",
       entries |-> << [content |-> "test", priority |-> "Low", status |-> "InProgress"],
                      [content |-> "ship", priority |-> "Medium", status |-> "Pending"] >>] }

SessionUpdates ==
    {[sessionUpdate |-> "UserMessageChunk", chunk |-> c] : c \in ContentChunks}
    \cup {[sessionUpdate |-> "AgentMessageChunk", chunk |-> c] : c \in ContentChunks}
    \cup {[sessionUpdate |-> "AgentThoughtChunk", chunk |-> c] : c \in ThoughtChunks}
    \cup ToolCallEvents
    \cup ToolCallUpdateEvents
    \cup PlanEvents
    \cup { [sessionUpdate |-> "AvailableCommandsUpdate", available_commands |-> <<"/help", "/clear">>],
           [sessionUpdate |-> "CurrentModeUpdate", current_mode_id |-> "code"],
           [sessionUpdate |-> "FutureVariant"] }

\* One item of the JSON array: it deserializes to a SessionUpdate or it does not.
JsonItems ==
    {[json |-> "valid", update |-> u] : u \in SessionUpdates} \cup {[json |-> "malformed"]}

(***************************************************************************)
(* ConversationPanelAcp                                                    *)
(***************************************************************************)

\* Mutant of load_mock_data: a malformed item is skipped, the others are kept.
load_mock_data_skips_malformed(json) ==
    LET valid == SelectSeq(json, LAMBDA item : item.json = "valid")
    IN  [i \in 1..Len(valid) |-> valid[i].update]

\* serde_json::from_str::<Vec<SessionUpdate>>: Ok with every item, or Err for
\* the whole array; on Err the panel starts with no updates.
load_mock_data(json) ==
    IF \A i \in 1..Len(json) : json[i].json = "valid"
    THEN [i \in 1..Len(json) |-> json[i].update]
    ELSE <<>>

\* str::len: the length in bytes.
RECURSIVE len(_)
len(text) ==
    IF text = <<>> THEN 0 ELSE Head(text).n * Head(text).w + len(Tail(text))

\* str::is_char_boundary: index is 0, the length, or the first byte of a char.
RECURSIVE is_char_boundary(_, _)
is_char_boundary(text, index) ==
    IF text = <<>> THEN index = 0
    ELSE LET bytes == Head(text).n * Head(text).w
         IN  IF index < bytes THEN index % Head(text).w = 0
             ELSE is_char_boundary(Tail(text), index - bytes)

\* &text[..end] for an end that is a char boundary.
RECURSIVE slice_to(_, _)
slice_to(text, end) ==
    IF text = <<>> \/ end = 0 THEN <<>>
    ELSE LET bytes == Head(text).n * Head(text).w
         IN  IF end < bytes THEN <<[Head(text) EXCEPT !.n = end \div Head(text).w]>>
             ELSE <<Head(text)>> \o slice_to(Tail(text), end - bytes)

\* The text as `{}` formats it, each run written <char>*<count>.
RECURSIVE Display(_)
Display(text) ==
    IF text = <<>> THEN ""
    ELSE Head(text).ch \o "*" \o ToString(Head(text).n) \o Display(Tail(text))

\* text_res.text.len().min(200)
SliceLimit == 200
SliceEnd(text) == IF len(text) < SliceLimit THEN len(text) ELSE SliceLimit

\* The byte slice &text[..end] panics when end is inside a char.
extract_text_from_content_panics(content) ==
    /\ content.type = "Resource"
    /\ content.resource.type = "TextResourceContents"
    /\ ~is_char_boundary(content.resource.text, SliceEnd(content.resource.text))

extract_text_from_content(content) ==
    CASE content.type = "Text" -> content.text
      [] content.type = "Image" -> "[Image: " \o content.mime_type \o "]"
      [] content.type = "Audio" -> "[Audio: " \o content.mime_type \o "]"
      [] content.type = "ResourceLink" -> "[Resource: " \o content.name \o "]"
      [] content.type = "Resource" ->
            CASE content.resource.type = "TextResourceContents" ->
                    "[Resource: " \o content.resource.uri \o "]\n"
                    \o Display(slice_to(content.resource.text,
                                        SliceEnd(content.resource.text)))
              [] content.resource.type = "BlobResourceContents" ->
                    "[Binary Resource: " \o content.resource.uri \o "]"
              [] OTHER -> "[Unknown Resource]"
      [] OTHER -> "[Unknown Content]"

render_user_message_chunk(chunk, index) ==
    [element |-> "UserMessage",
     id |-> "user-msg-" \o ToString(index),
     session_id |-> "default-session",
     contents |-> <<chunk.content>>]

render_agent_message_chunk(chunk, index) ==
    [element |-> "AgentMessage",
     id |-> "agent-msg-" \o ToString(index),
     session_id |-> "default-session",
     chunks |-> <<chunk>>]

render_agent_thought_chunk(chunk) ==
    [element |-> "ThoughtDiv",
     label |-> "Thinking...",
     text |-> extract_text_from_content(chunk.content)]

\* Mutant of render_tool_call: the status of the event is not shown.
render_tool_call_default_status(tool_call) ==
    [element |-> "ToolCallDiv",
     title |-> "Tool: " \o tool_call.title,
     status |-> "Status: Pending"]

\* Mutant of render_tool_call: the item is titled by the id of the tool call.
render_tool_call_titled_by_id(tool_call) ==
    [element |-> "ToolCallDiv",
     title |-> "Tool: " \o tool_call.tool_call_id,
     status |-> "Status: " \o tool_call.status]

render_tool_call(tool_call) ==
    [element |-> "ToolCallDiv",
     title |-> "Tool: " \o tool_call.title,
     status |-> "Status: " \o tool_call.status]

render_plan(plan) ==
    [element |-> "AgentTodoList", entries |-> plan.entries]

TextDiv(text) == [element |-> "TextDiv", text |-> text]

\* Mutant of render_session_update: no arm for ToolCallUpdate.
render_session_update_no_update_arm(update, index) ==
    CASE update.sessionUpdate = "UserMessageChunk" ->
            render_user_message_chunk(update.chunk, index)
      [] update.sessionUpdate = "AgentMessageChunk" ->
            render_agent_message_chunk(update.chunk, index)
      [] update.sessionUpdate = "AgentThoughtChunk" ->
            render_agent_thought_chunk(update.chunk)
      [] update.sessionUpdate = "ToolCall" -> render_tool_call(update)
      [] update.sessionUpdate = "Plan" -> render_plan(update)
      [] OTHER -> TextDiv("Unknown session update")

render_session_update(update, index) ==
    CASE update.sessionUpdate = "UserMessageChunk" ->
            render_user_message_chunk(update.chunk, index)
      [] update.sessionUpdate = "AgentMessageChunk" ->
            render_agent_message_chunk(update.chunk, index)
      [] update.sessionUpdate = "AgentThoughtChunk" ->
            render_agent_thought_chunk(update.chunk)
      [] update.sessionUpdate = "ToolCall" -> render_tool_call(update)
      [] update.sessionUpdate = "ToolCallUpdate" ->
            TextDiv("Tool Call Update: " \o update.tool_call_id)
      [] update.sessionUpdate = "Plan" -> render_plan(update)
      [] update.sessionUpdate = "AvailableCommandsUpdate" ->
            TextDiv("Available Commands: " \o ToString(Len(update.available_commands))
                    \o " commands")
      [] update.sessionUpdate = "CurrentModeUpdate" ->
            TextDiv("Mode Update: " \o update.current_mode_id)
      [] OTHER -> TextDiv("Unknown session update")

\* Rendering the update panics: the only call that can is the byte slice of
\* extract_text_from_content, reached from the AgentThoughtChunk arm.
render_session_update_panics(update) ==
    /\ update.sessionUpdate = "AgentThoughtChunk"
    /\ extract_text_from_content_panics(update.chunk.content)

\* The parts of the state a specification does not use.
NoPanel ==
    /\ mock_json = <<>>
    /\ session_updates = <<>>
    /\ pc = "idle"
    /\ updates = <<>>
    /\ children = <<>>

NoViews == views = <<>> /\ lastOp = [op |-> "none"]

NoDiff == old_text = None /\ new_text = <<>> /\ stats = None

NoSummary == tool_calls = <<>> /\ summary = None /\ iteration = <<>> /\ sorted = None

NoShown == data = None /\ collapsed = FALSE

NoConfig == disk = None /\ returned = None

NoTasks == delegate = None

NoConversation == items = <<>> /\ elements = <<>>

\* ConversationPanelAcp::new: the state after construction.
Init ==
    /\ mock_json \in SeqsUpTo(JsonItems, MaxUpdates)
    /\ session_updates = load_mock_data(mock_json)
    /\ pc = "idle"
    /\ updates = <<>>
    /\ children = <<>>
    /\ NoViews
    /\ NoDiff
    /\ NoSummary
    /\ NoShown
    /\ NoConfig
    /\ NoTasks
    /\ NoConversation

\* render() is entered: the iterator over session_updates starts.
RenderBegin ==
    /\ pc = "idle"
    /\ pc' = "render"
    /\ updates' = <<>>
    /\ UNCHANGED <<mock_json, session_updates, children, viewVars, diffVars, summaryVars, moreVars>>

\* Mutants of CollectNext.
CollectNext_prepends(collected) ==
    <<render_session_update(session_updates[Len(collected) + 1], Len(collected))>> \o collected

CollectNext_coalesces(collected) ==
    LET update == session_updates[Len(collected) + 1]
        last == collected[Len(collected)]
    IN  IF /\ Len(collected) > 0
           /\ update.sessionUpdate = "UserMessageChunk"
           /\ last.element = "UserMessage"
        THEN [collected EXCEPT ![Len(collected)].contents = Append(@, update.chunk.content)]
        ELSE Append(collected, render_session_update(update, Len(collected)))

CollectNext_replaces_duplicate(collected) ==
    LET update == session_updates[Len(collected) + 1]
    IN  IF /\ update.sessionUpdate = "ToolCall"
           /\ \E j \in 1..Len(collected) :
                 /\ session_updates[j].sessionUpdate = "ToolCall"
                 /\ session_updates[j].tool_call_id = update.tool_call_id
        THEN Append(collected, [element |-> "TextDiv",
                                text |-> "Duplicate tool call: " \o update.tool_call_id])
        ELSE Append(collected, render_session_update(update, Len(collected)))

CollectNext_removes_finished(collected) ==
    LET update == session_updates[Len(collected) + 1]
    IN  IF /\ update.sessionUpdate = "ToolCallUpdate"
           /\ update.fields.status = Some("Completed")
        THEN Append([j \in 1..Len(collected) |->
                        IF /\ session_updates[j].sessionUpdate = "ToolCall"
                           /\ session_updates[j].tool_call_id = update.tool_call_id
                        THEN [element |-> "TextDiv", text |-> "Tool call finished"]
                        ELSE collected[j]],
                    render_session_update(update, Len(collected)))
        ELSE Append(collected, render_session_update(update, Len(collected)))

CollectNext_update_relists(collected) ==
    LET update == session_updates[Len(collected) + 1]
    IN  IF update.sessionUpdate = "ToolCallUpdate"
        THEN Append(collected, [element |-> "ToolCallDiv",
                                title |-> "Tool: " \o update.tool_call_id,
                                status |-> "Status: updated"])
        ELSE Append(collected, render_session_update(update, Len(collected)))

CollectNext_merges_plans(collected) ==
    LET update == session_updates[Len(collected) + 1]
        plans == {j \in 1..Len(collected) : session_updates[j].sessionUpdate = "Plan"}
    IN  IF update.sessionUpdate = "Plan" /\ plans # {}
        THEN LET last == CHOOSE j \in plans : \A k \in plans : k <= j
             IN  Append(collected, [element |-> "AgentTodoList",
                                    entries |-> collected[last].entries \o update.entries])
        ELSE Append(collected, render_session_update(update, Len(collected)))

\* The element the iterator collects next: the update at the enumerate() index.
CollectNext(collected) ==
    Append(collected, render_session_update(session_updates[Len(collected) + 1], Len(collected)))

\* Mutant of RenderNext: an update for an id no ToolCall event created aborts.
RenderNext_aborts_on_unknown_id ==
    /\ pc = "render"
    /\ Len(updates) < Len(session_updates)
    /\ ~render_session_update_panics(session_updates[Len(updates) + 1])
    /\ LET update == session_updates[Len(updates) + 1]
       IN  update.sessionUpdate = "ToolCallUpdate" =>
              \E j \in 1..Len(updates) :
                 /\ session_updates[j].sessionUpdate = "ToolCall"
                 /\ session_updates[j].tool_call_id = update.tool_call_id
    /\ updates' = CollectNext(updates)
    /\ UNCHANGED <<mock_json, session_updates, pc, children, viewVars, diffVars, summaryVars, moreVars>>

\* Mutant of RenderNext: an update of a kind without an arm of its own aborts.
RenderNext_aborts_on_unknown_kind ==
    /\ pc = "render"
    /\ Len(updates) < Len(session_updates)
    /\ ~render_session_update_panics(session_updates[Len(updates) + 1])
    /\ session_updates[Len(updates) + 1].sessionUpdate # "FutureVariant"
    /\ updates' = CollectNext(updates)
    /\ UNCHANGED <<mock_json, session_updates, pc, children, viewVars, diffVars, summaryVars, moreVars>>

\* One step of .iter().enumerate().map(render_session_update).collect().
RenderNext ==
    /\ pc = "render"
    /\ Len(updates) < Len(session_updates)
    /\ ~render_session_update_panics(session_updates[Len(updates) + 1])
    /\ updates' = CollectNext(updates)
    /\ UNCHANGED <<mock_json, session_updates, pc, children, viewVars, diffVars, summaryVars, moreVars>>

\* The iterator is exhausted: the collected elements become the children.
RenderEnd ==
    /\ pc = "render"
    /\ Len(updates) = Len(session_updates)
    /\ children' = updates
    /\ updates' = <<>>
    /\ pc' = "idle"
    /\ UNCHANGED <<mock_json, session_updates, viewVars, diffVars, summaryVars, moreVars>>

\* The step of the iterator panics: render() unwinds and nothing runs after.
RenderPanic ==
    /\ pc = "render"
    /\ Len(updates) < Len(session_updates)
    /\ render_session_update_panics(session_updates[Len(updates) + 1])
    /\ pc' = "panic"
    /\ UNCHANGED <<mock_json, session_updates, updates, children, viewVars, diffVars,
                   summaryVars, moreVars>>

Next == RenderBegin \/ RenderNext \/ RenderPanic \/ RenderEnd

Spec == Init /\ [][Next]_vars

(***************************************************************************)
(* ToolCallItemView                                                        *)
(***************************************************************************)
ViewIds == {"v1", "v2"}

ContentItem == [type |-> "Content", text |-> "output"]

DiffItem ==
    [type |-> "Diff", path |-> "src/main.rs", old_text |-> None, new_text |-> "fn main() {}"]

\* Content items handed to add_content.
AddedContents == {ContentItem}

\* Content lists handed to set_content.
ContentLists == {<<>>, <<DiffItem>>, <<DiffItem, ContentItem>>}

\* Whole ToolCall values handed to ToolCallItemView::new and update_tool_call.
ToolCalls ==
    { [tool_call_id |-> "t1", title |-> "Read file", kind |-> "Read",
       status |-> "Pending", content |-> <<>>],
      [tool_call_id |-> "t2", title |-> "Edit file", kind |-> "Edit",
       status |-> "InProgress",
       content |-> <<ContentItem>>] }

\* The panel is not involved in the operations of a view.
InitView ==
    /\ NoPanel
    /\ NoViews
    /\ NoDiff
    /\ NoSummary
    /\ NoShown
    /\ NoConfig
    /\ NoTasks
    /\ NoConversation

\* ToolCallItemView::new: a fresh tool_call entity, closed.
new(v, tool_call) ==
    /\ v \notin DOMAIN views
    /\ views' = (v :> [tool_call |-> tool_call, open |-> FALSE]) @@ views
    /\ lastOp' = [op |-> "new", view |-> v, arg |-> tool_call, notified |-> {}]
    /\ UNCHANGED <<panelVars, diffVars, summaryVars, moreVars>>

\* *tc = tool_call; the entity notifies, the view itself does not.
update_tool_call(v, tool_call) ==
    /\ v \in DOMAIN views
    /\ views' = [views EXCEPT ![v].tool_call = tool_call]
    /\ lastOp' = [op |-> "update_tool_call", view |-> v, arg |-> tool_call,
                  before |-> views[v].tool_call,
                  notified |-> {"tool_call"}]
    /\ UNCHANGED <<panelVars, diffVars, summaryVars, moreVars>>

\* Mutant of update_status: the update also clears the content.
update_status_clears_content(v, status) ==
    /\ v \in DOMAIN views
    /\ views' = [views EXCEPT ![v].tool_call.status = status,
                              ![v].tool_call.content = <<>>]
    /\ lastOp' = [op |-> "update_status", view |-> v, arg |-> status,
                  notified |-> {"tool_call", "view"}]
    /\ UNCHANGED <<panelVars, diffVars, summaryVars, moreVars>>

\* tc.status = status
update_status(v, status) ==
    /\ v \in DOMAIN views
    /\ views' = [views EXCEPT ![v].tool_call.status = status]
    /\ lastOp' = [op |-> "update_status", view |-> v, arg |-> status,
                  notified |-> {"tool_call", "view"}]
    /\ UNCHANGED <<panelVars, diffVars, summaryVars, moreVars>>

\* Mutant of add_content: the push is not followed by cx.notify().
add_content_silent(v, content) ==
    /\ v \in DOMAIN views
    /\ Len(views[v].tool_call.content) < MaxContent
    /\ views' = [views EXCEPT ![v].tool_call.content = Append(@, content)]
    /\ lastOp' = [op |-> "add_content", view |-> v, arg |-> content,
                  notified |-> {}]
    /\ UNCHANGED <<panelVars, diffVars, summaryVars, moreVars>>

\* tc.content.push(content)
add_content(v, content) ==
    /\ v \in DOMAIN views
    /\ Len(views[v].tool_call.content) < MaxContent
    /\ views' = [views EXCEPT ![v].tool_call.content = Append(@, content)]
    /\ lastOp' = [op |-> "add_content", view |-> v, arg |-> content,
                  notified |-> {"tool_call", "view"}]
    /\ UNCHANGED <<panelVars, diffVars, summaryVars, moreVars>>

\* Mutant of set_content: the list is appended to the content.
set_content_appends(v, content) ==
    /\ v \in DOMAIN views
    /\ views' = [views EXCEPT ![v].tool_call.content = @ \o content]
    /\ lastOp' = [op |-> "set_content", view |-> v, arg |-> content,
                  before |-> views[v].tool_call.content,
                  notified |-> {"tool_call", "view"}]
    /\ UNCHANGED <<panelVars, diffVars, summaryVars, moreVars>>

\* tc.content = content
set_content(v, content) ==
    /\ v \in DOMAIN views
    /\ views' = [views EXCEPT ![v].tool_call.content = content]
    /\ lastOp' = [op |-> "set_content", view |-> v, arg |-> content,
                  before |-> views[v].tool_call.content,
                  notified |-> {"tool_call", "view"}]
    /\ UNCHANGED <<panelVars, diffVars, summaryVars, moreVars>>

toggle(v) ==
    /\ v \in DOMAIN views
    /\ views' = [views EXCEPT ![v].open = ~@]
    /\ lastOp' = [op |-> "toggle", view |-> v, arg |-> None, notified |-> {"view"}]
    /\ UNCHANGED <<panelVars, diffVars, summaryVars, moreVars>>

set_open(v, open) ==
    /\ v \in DOMAIN views
    /\ views' = [views EXCEPT ![v].open = open]
    /\ lastOp' = [op |-> "set_open", view |-> v, arg |-> open, notified |-> {"view"}]
    /\ UNCHANGED <<panelVars, diffVars, summaryVars, moreVars>>

NextView ==
    \E v \in ViewIds :
        \/ \E tool_call \in ToolCalls : new(v, tool_call)
        \/ \E tool_call \in ToolCalls : update_tool_call(v, tool_call)
        \/ \E status \in ToolCallStatus : update_status(v, status)
        \/ \E content \in AddedContents : add_content(v, content)
        \/ \E content \in ContentLists : set_content(v, content)
        \/ toggle(v)
        \/ \E open \in BOOLEAN : set_open(v, open)

SpecView == InitView /\ [][NextView]_vars

(***************************************************************************)
(* FileChangeStats (components/diff_summary.rs)                            *)
(***************************************************************************)
MaxChars == 4       \* longest text drawn char by char
MaxLines == 3       \* most lines of a text drawn line by line

\* A text is the sequence of its chars.
NL == "\n"
CR == "\r"

Chars == {"a", NL}

LineContents == {"a", "b", "c", "x"}

\* The lines, each followed by a newline.
RECURSIVE Join(_)
Join(ls) == IF ls = <<>> THEN <<>> ELSE <<Head(ls), NL>> \o Join(Tail(ls))

Texts ==
    SeqsUpTo(Chars, MaxChars) \cup {Join(ls) : ls \in SeqsUpTo(LineContents, MaxLines)}

DiffPath == "src/main.rs"

\* str::split_inclusive('\n'): the pieces keep their newline; the empty text
\* has no piece and a trailing newline starts no further piece.
RECURSIVE split_inclusive(_)
split_inclusive(text) ==
    IF text = <<>> THEN <<>>
    ELSE IF \E i \in 1..Len(text) : text[i] = NL
         THEN LET nl == CHOOSE i \in 1..Len(text) :
                           text[i] = NL /\ \A j \in 1..(i - 1) : text[j] # NL
              IN  <<SubSeq(text, 1, nl)>> \o split_inclusive(SubSeq(text, nl + 1, Len(text)))
         ELSE <<text>>

\* One line of str::lines: the piece without its "\n" or "\r\n".
strip_line_ending(piece) ==
    LET line == IF piece # <<>> /\ piece[Len(piece)] = NL
                THEN SubSeq(piece, 1, Len(piece) - 1) ELSE piece
    IN  IF piece # line /\ line # <<>> /\ line[Len(line)] = CR
        THEN SubSeq(line, 1, Len(line) - 1) ELSE line

\* str::lines
lines(text) ==
    LET pieces == split_inclusive(text)
    IN  [i \in 1..Len(pieces) |-> strip_line_ending(pieces[i])]

Max(a, b) == IF a >= b THEN a ELSE b

\* The length of a longest common subsequence of two sequences of lines.
RECURSIVE LcsLen(_, _)
LcsLen(a, b) ==
    IF a = <<>> \/ b = <<>> THEN 0
    ELSE IF Head(a) = Head(b) THEN 1 + LcsLen(Tail(a), Tail(b))
         ELSE Max(LcsLen(Tail(a), b), LcsLen(a, Tail(b)))

\* A shortest edit script from old to new, one tagged change per line.
RECURSIVE Changes(_, _)
Changes(a, b) ==
    IF a = <<>> THEN [i \in 1..Len(b) |-> [tag |-> "Insert", value |-> b[i]]]
    ELSE IF b = <<>> THEN [i \in 1..Len(a) |-> [tag |-> "Delete", value |-> a[i]]]
    ELSE IF Head(a) = Head(b)
         THEN <<[tag |-> "Equal", value |-> Head(a)]>> \o Changes(Tail(a), Tail(b))
         ELSE IF LcsLen(Tail(a), b) >= LcsLen(a, Tail(b))
              THEN <<[tag |-> "Delete", value |-> Head(a)]>> \o Changes(Tail(a), b)
              ELSE <<[tag |-> "Insert", value |-> Head(b)]>> \o Changes(a, Tail(b))

\* TextDiff::from_lines(old, new).iter_all_changes(): the texts are cut after
\* each newline (a line keeps its terminator) and compared line by line.
iter_all_changes(old_txt, new_txt) ==
    Changes(split_inclusive(old_txt), split_inclusive(new_txt))

CountTag(changes, tag) == Cardinality({i \in 1..Len(changes) : changes[i].tag = tag})

\* Mutants of from_diff.
from_diff_counts_segments(path, old_txt, new_txt) ==
    IF old_txt # None
    THEN LET diff == iter_all_changes(old_txt[1], new_txt)
         IN  [path |-> path, additions |-> CountTag(diff, "Insert"),
              deletions |-> CountTag(diff, "Delete"), is_new_file |-> FALSE]
    ELSE [path |-> path,
          additions |-> Cardinality({i \in 1..Len(new_txt) : new_txt[i] = NL}) + 1,
          deletions |-> 0, is_new_file |-> TRUE]

from_diff_empty_is_new(path, old_txt, new_txt) ==
    IF old_txt # None /\ old_txt[1] # <<>>
    THEN LET diff == iter_all_changes(old_txt[1], new_txt)
         IN  [path |-> path, additions |-> CountTag(diff, "Insert"),
              deletions |-> CountTag(diff, "Delete"), is_new_file |-> FALSE]
    ELSE [path |-> path, additions |-> Len(lines(new_txt)), deletions |-> 0,
          is_new_file |-> TRUE]

from_diff_counts_equal(path, old_txt, new_txt) ==
    IF old_txt # None
    THEN LET diff == iter_all_changes(old_txt[1], new_txt)
         IN  [path |-> path,
              additions |-> CountTag(diff, "Insert") + CountTag(diff, "Equal"),
              deletions |-> CountTag(diff, "Delete"), is_new_file |-> FALSE]
    ELSE [path |-> path, additions |-> Len(lines(new_txt)), deletions |-> 0,
          is_new_file |-> TRUE]

\* FileChangeStats::from_diff
from_diff(path, old_txt, new_txt) ==
    IF old_txt # None
    THEN LET diff == iter_all_changes(old_txt[1], new_txt)
         IN  [path |-> path, additions |-> CountTag(diff, "Insert"),
              deletions |-> CountTag(diff, "Delete"), is_new_file |-> FALSE]
    ELSE [path |-> path, additions |-> Len(lines(new_txt)), deletions |-> 0,
          is_new_file |-> TRUE]

\* FileChangeStats::total_changes
total_changes(file) == file.additions + file.deletions

\* A diff is handed to from_diff: its old text may be absent.
InitDiff ==
    /\ NoPanel
    /\ NoViews
    /\ NoSummary
    /\ NoShown
    /\ NoConfig
    /\ NoTasks
    /\ NoConversation
    /\ old_text \in {None} \cup {Some(text) : text \in Texts}
    /\ new_text \in Texts
    /\ stats = None

\* The call FileChangeStats::from_diff(path, old_text, new_text).
FromDiff ==
    /\ stats = None
    /\ stats' = Some(from_diff(DiffPath, old_text, new_text))
    /\ UNCHANGED <<panelVars, viewVars, old_text, new_text, summaryVars, moreVars>>

NextDiff == FromDiff

SpecDiff == InitDiff /\ [][NextDiff]_vars

(***************************************************************************)
(* DiffSummaryData (components/diff_summary.rs)                            *)
(***************************************************************************)
MaxToolCalls == 3   \* longest list of tool calls aggregated

\* ToolCallContent::Diff items: a new file, a rewrite of the same path, and
\* the emptying of another file.
DiffNewA ==
    [type |-> "Diff", path |-> "src/a.rs", old_text |-> None,
     new_text |-> <<"a", NL>>]
DiffEditA ==
    [type |-> "Diff", path |-> "src/a.rs", old_text |-> Some(<<"a", NL, "b", NL>>),
     new_text |-> <<"x", NL>>]
DiffEmptyB ==
    [type |-> "Diff", path |-> "src/b.rs", old_text |-> Some(<<"a", NL>>),
     new_text |-> <<>>]
DiffEditC ==
    [type |-> "Diff", path |-> "src/c.rs", old_text |-> Some(<<"a", NL>>),
     new_text |-> <<"x", NL>>]

\* The tool calls a list is drawn from: every status, with and without diffs.
SummaryToolCalls ==
    { [tool_call_id |-> "t1", status |-> "Completed", content |-> <<DiffNewA>>],
      [tool_call_id |-> "t2", status |-> "Failed", content |-> <<ContentItem, DiffEditA>>],
      [tool_call_id |-> "t3", status |-> "InProgress", content |-> <<DiffEmptyB, DiffNewA>>],
      [tool_call_id |-> "t4", status |-> "Pending", content |-> <<>>],
      [tool_call_id |-> "t5", status |-> "Completed", content |-> <<DiffEditA, DiffNewA>>],
      [tool_call_id |-> "t6", status |-> "Completed", content |-> <<DiffEditC>>] }

\* HashMap::new and HashMap::insert: the value of an existing key is replaced.
NewMap == [path \in {} |-> None]
insert(files, key, value) == (key :> value) @@ files

\* for content in &tool_call.content
RECURSIVE VisitContent(_, _)
VisitContent(files, content) ==
    IF content = <<>> THEN files
    ELSE LET diff == Head(content)
         IN  VisitContent(IF diff.type = "Diff"
                          THEN insert(files, diff.path,
                                      from_diff(diff.path, diff.old_text, diff.new_text))
                          ELSE files,
                          Tail(content))

\* for tool_call in tool_calls
RECURSIVE VisitToolCalls(_, _)
VisitToolCalls(files, calls) ==
    IF calls = <<>> THEN files
    ELSE VisitToolCalls(VisitContent(files, Head(calls).content), Tail(calls))

Reverse(seq) == [i \in 1..Len(seq) |-> seq[Len(seq) + 1 - i]]

\* Mutant of from_tool_calls: the first diff of a path is the one kept, as if
\* the items were visited last to first.
from_tool_calls_keeps_first(calls) ==
    [files |-> VisitToolCalls(NewMap,
                   Reverse([i \in 1..Len(calls) |->
                               [calls[i] EXCEPT !.content = Reverse(@)]]))]

\* DiffSummaryData::from_tool_calls
from_tool_calls(calls) == [files |-> VisitToolCalls(NewMap, calls)]

\* DiffSummaryData::total_files, total_additions, total_deletions
total_files(summary_data) == Cardinality(DOMAIN summary_data.files)

\* .sum() of the values of a map.
RECURSIVE Sum(_)
Sum(counts) ==
    IF DOMAIN counts = {} THEN 0
    ELSE LET path == CHOOSE p \in DOMAIN counts : TRUE
         IN  counts[path] + Sum([p \in DOMAIN counts \ {path} |-> counts[p]])

total_additions(summary_data) == Sum([p \in DOMAIN summary_data.files |-> summary_data.files[p].additions])
total_deletions(summary_data) == Sum([p \in DOMAIN summary_data.files |-> summary_data.files[p].deletions])

\* DiffSummaryData::has_changes
has_changes(summary_data) == DOMAIN summary_data.files # {}

\* The orders in which a HashMap with these keys may yield them: the order
\* depends on the hasher keys of the instance (RandomState), fixed when the
\* map is created and unspecified.
Orders(keys) ==
    {order \in [1..Cardinality(keys) -> keys] :
        \A i, j \in 1..Cardinality(keys) : i # j => order[i] # order[j]}

\* self.files.values().collect()
values(summary_data, order) == [i \in 1..Len(order) |-> summary_data.files[order[i]]]

\* One step of the stable sort: the file goes after every file that does not
\* compare greater, i.e. whose total is at least its own.
sort_insert(files, file) ==
    LET before == SelectSeq(files, LAMBDA f : total_changes(f) >= total_changes(file))
        after == SelectSeq(files, LAMBDA f : total_changes(f) < total_changes(file))
    IN  before \o <<file>> \o after

\* files.sort_by(|a, b| b.total_changes().cmp(&a.total_changes())), stable.
RECURSIVE sort_by(_)
sort_by(files) ==
    IF files = <<>> THEN <<>>
    ELSE sort_insert(sort_by(SubSeq(files, 1, Len(files) - 1)), files[Len(files)])

\* Mutant of sorted_files: the comparison is a.cmp(b), ascending.
sorted_files_ascending(summary_data, order) == Reverse(sort_by(values(summary_data, order)))

\* DiffSummaryData::sorted_files
sorted_files(summary_data, order) == sort_by(values(summary_data, order))

\* A caller holds a list of tool calls; nothing is aggregated yet.
InitSummary ==
    /\ NoPanel
    /\ NoViews
    /\ NoDiff
    /\ NoShown
    /\ NoConfig
    /\ NoTasks
    /\ NoConversation
    /\ tool_calls \in SeqsUpTo(SummaryToolCalls, MaxToolCalls)
    /\ summary = None
    /\ iteration = <<>>
    /\ sorted = None

\* Mutant of FromToolCalls: the content is moved out of the tool calls.
FromToolCalls_takes_content ==
    /\ summary' = Some(from_tool_calls(tool_calls))
    /\ iteration' \in Orders(DOMAIN from_tool_calls(tool_calls).files)
    /\ tool_calls' = [i \in 1..Len(tool_calls) |-> [tool_calls[i] EXCEPT !.content = <<>>]]
    /\ UNCHANGED <<panelVars, viewVars, diffVars, sorted, shownVars, configVars, taskVars,
                   convVars>>

\* The call DiffSummaryData::from_tool_calls(&tool_calls), as often as the
\* caller likes; the list is borrowed immutably, the map is a new HashMap.
FromToolCalls ==
    /\ summary' = Some(from_tool_calls(tool_calls))
    /\ iteration' \in Orders(DOMAIN from_tool_calls(tool_calls).files)
    /\ UNCHANGED <<panelVars, viewVars, diffVars, tool_calls, sorted, shownVars, configVars,
                   taskVars, convVars>>

\* The call summary.sorted_files() on the summary built last.
SortedFiles ==
    /\ summary # None
    /\ sorted' = Some(sorted_files(summary[1], iteration))
    /\ UNCHANGED <<panelVars, viewVars, diffVars, summaryVars, iteration, shownVars,
                   configVars, taskVars, convVars>>

NextSummary == FromToolCalls \/ SortedFiles

SpecSummary == InitSummary /\ [][NextSummary]_vars

(***************************************************************************)
(* DiffSummary (components/diff_summary.rs): the component that shows a    *)
(* DiffSummaryData.  The tool calls live in the ToolCallItemView entities; *)
(* a caller aggregates them and hands the result to the component.         *)
(***************************************************************************)
\* Content lists handed to set_content while a summary is on display.
ShownContentLists == {<<>>, <<DiffNewA>>, <<DiffEmptyB, DiffNewA>>}

ViewOrder == <<"v1", "v2">>

\* The tool calls as they are now, in the order of their views.
CurrentToolCalls ==
    LET live == SelectSeq(ViewOrder, LAMBDA v : v \in DOMAIN views)
    IN  [i \in 1..Len(live) |-> views[live[i]].tool_call]

\* DiffSummary::new(data) for the summary of no tool call, expanded.
InitShown ==
    /\ NoPanel
    /\ NoViews
    /\ NoDiff
    /\ NoSummary
    /\ NoConfig
    /\ NoTasks
    /\ NoConversation
    /\ data = Some(from_tool_calls(<<>>))
    /\ collapsed = FALSE

\* Mutant of update_data: the entries given are added to those on display.
update_data_extends(summary_data) ==
    /\ data' = Some([files |-> summary_data.files @@ data[1].files])
    /\ lastOp' = [op |-> "update_data", view |-> "summary", arg |-> summary_data,
                  notified |-> {"summary"}]
    /\ UNCHANGED <<panelVars, views, diffVars, summaryVars, sortVars, collapsed, configVars,
                   taskVars, convVars>>

\* DiffSummary::update_data: self.data = data; cx.notify()
update_data(summary_data) ==
    /\ data' = Some(summary_data)
    /\ lastOp' = [op |-> "update_data", view |-> "summary", arg |-> summary_data,
                  notified |-> {"summary"}]
    /\ UNCHANGED <<panelVars, views, diffVars, summaryVars, sortVars, collapsed, configVars,
                   taskVars, convVars>>

\* DiffSummary::toggle: self.collapsed = !self.collapsed; cx.notify()
DiffSummary_toggle ==
    /\ collapsed' = ~collapsed
    /\ lastOp' = [op |-> "DiffSummary::toggle", view |-> "summary", arg |-> None,
                  notified |-> {"summary"}]
    /\ UNCHANGED <<panelVars, views, diffVars, summaryVars, sortVars, data, configVars,
                   taskVars, convVars>>

\* Tool calls are created and their content replaced; the caller refreshes
\* the summary with the aggregation of the tool calls of that moment.
NextShown ==
    \/ \E v \in ViewIds, tool_call \in ToolCalls : new(v, tool_call)
    \/ \E v \in ViewIds, content \in ShownContentLists : set_content(v, content)
    \/ update_data(from_tool_calls(CurrentToolCalls))
    \/ DiffSummary_toggle

SpecShown == InitShown /\ [][NextShown]_vars

(***************************************************************************)
(* ConversationPanel (conversation.rs): the fixture items and the ACP      *)
(* values render() maps them to.  A string is the sequence of its chars.   *)
(***************************************************************************)
MaxItems == 2       \* longest fixture

Str_high == <<"h", "i", "g", "h">>
Str_medium == <<"m", "e", "d", "i", "u", "m">>
Str_low == <<"l", "o", "w">>
Str_pending == <<"p", "e", "n", "d", "i", "n", "g">>
Str_in_progress == <<"i", "n", "_", "p", "r", "o", "g", "r", "e", "s", "s">>
Str_inprogress == <<"i", "n", "p", "r", "o", "g", "r", "e", "s", "s">>
Str_completed == <<"c", "o", "m", "p", "l", "e", "t", "e", "d">>
Str_failed == <<"f", "a", "i", "l", "e", "d">>
Str_read == <<"r", "e", "a", "d">>
Str_edit == <<"e", "d", "i", "t">>
Str_delete == <<"d", "e", "l", "e", "t", "e">>
Str_move == <<"m", "o", "v", "e">>
Str_search == <<"s", "e", "a", "r", "c", "h">>
Str_execute == <<"e", "x", "e", "c", "u", "t", "e">>
Str_think == <<"t", "h", "i", "n", "k">>
Str_fetch == <<"f", "e", "t", "c", "h">>
Str_switch_mode == <<"s", "w", "i", "t", "c", "h", "_", "m", "o", "d", "e">>
Str_InProgress == <<"I", "n", "P", "r", "o", "g", "r", "e", "s", "s">>
\* Spellings that occur in fixtures only.
FixtureStr ==
    [IN_PROGRESS |-> <<"I", "N", "_", "P", "R", "O", "G", "R", "E", "S", "S">>,
     Completed |-> <<"C", "o", "m", "p", "l", "e", "t", "e", "d">>,
     bogus |-> <<"b", "o", "g", "u", "s">>,
     Edit |-> <<"E", "d", "i", "t">>,
     SWITCH_MODE |-> <<"S", "W", "I", "T", "C", "H", "_", "M", "O", "D", "E">>,
     teleport |-> <<"t", "e", "l", "e", "p", "o", "r", "t">>,
     LOW |-> <<"L", "O", "W">>,
     urgent |-> <<"u", "r", "g", "e", "n", "t">>]

UpperCase == <<"A", "B", "C", "D", "E", "F", "G", "H", "I", "J", "K", "L", "M", "N", "O", "P", "Q", "R", "S", "T", "U", "V", "W", "X", "Y", "Z">>
LowerCase == <<"a", "b", "c", "d", "e", "f", "g", "h", "i", "j", "k", "l", "m", "n", "o", "p", "q", "r", "s", "t", "u", "v", "w", "x", "y", "z">>

\* char::to_lowercase, on ASCII
char_to_lowercase(c) ==
    IF \E i \in 1..Len(UpperCase) : UpperCase[i] = c
    THEN LowerCase[CHOOSE i \in 1..Len(UpperCase) : UpperCase[i] = c]
    ELSE c

\* str::to_lowercase
to_lowercase(str) == [i \in 1..Len(str) |-> char_to_lowercase(str[i])]

\* PlanSchema values: entries of PlanEntrySchema { content, priority, status }.
PlanSchemas ==
    { [type |-> "Plan", entries |-> <<>>],
      [type |-> "Plan",
       entries |-> << [content |-> "design", priority |-> Str_high, status |-> Str_pending],
                      [content |-> "build", priority |-> FixtureStr.LOW, status |-> Str_in_progress] >>],
      [type |-> "Plan",
       entries |-> << [content |-> "test", priority |-> Str_medium, status |-> Str_InProgress],
                      [content |-> "build", priority |-> FixtureStr.LOW, status |-> Str_in_progress] >>],
      [type |-> "Plan",
       entries |-> << [content |-> "ship", priority |-> FixtureStr.urgent, status |-> FixtureStr.Completed],
                      [content |-> "rest", priority |-> Str_low, status |-> FixtureStr.bogus] >>] }

\* ToolCallItemSchema values: kind and status are optional strings.
ToolCallItemSchema(id, kind, status, open) ==
    [id |-> id, open |-> open,
     data |-> [tool_call_id |-> id, title |-> "Run", kind |-> kind, status |-> status,
               content |-> <<[text |-> "output"]>>]]

ToolCallItemSchemas ==
    { ToolCallItemSchema("tc1", Some(Str_read), Some(Str_pending), FALSE),
      ToolCallItemSchema("tc2", Some(FixtureStr.Edit), Some(Str_in_progress), TRUE),
      ToolCallItemSchema("tc3", Some(Str_edit), Some(Str_InProgress), FALSE),
      ToolCallItemSchema("tc4", Some(FixtureStr.SWITCH_MODE), Some(FixtureStr.IN_PROGRESS), FALSE),
      ToolCallItemSchema("tc5", Some(FixtureStr.teleport), Some(FixtureStr.Completed), TRUE),
      ToolCallItemSchema("tc6", None, Some(Str_failed), FALSE),
      ToolCallItemSchema("tc7", Some(Str_execute), Some(FixtureStr.bogus), FALSE),
      ToolCallItemSchema("tc8", Some(Str_fetch), None, TRUE) }

ToolCallGroups ==
    {[type |-> "ToolCallGroup", items |-> <<item>>] : item \in ToolCallItemSchemas}
    \cup { [type |-> "ToolCallGroup",
            items |-> << ToolCallItemSchema("tc2", Some(FixtureStr.Edit), Some(Str_in_progress), TRUE),
                         ToolCallItemSchema("tc3", Some(Str_edit), Some(Str_InProgress), FALSE) >>] }

\* ConversationItem values of the fixture.
ConversationItems ==
    { [type |-> "UserMessage", id |-> "u1",
       data |-> [session_id |-> "s1", prompt |-> <<[type |-> "Text", text |-> "hello"]>>]],
      [type |-> "AgentMessage", id |-> "a1",
       data |-> [session_id |-> "s1", meta |-> None,
                 chunks |-> <<[content |-> [type |-> "Text", text |-> "hi"], meta |-> None]>>]] }
    \cup PlanSchemas \cup ToolCallGroups

\* ConversationPanel::map_content_block, for the blocks of the fixture
map_content_block(schema) ==
    CASE schema.type = "Text" -> [type |-> "Text", text |-> schema.text]
      [] schema.type = "Image" ->
            [type |-> "Image", data |-> schema.data, mime_type |-> schema.mime_type]

\* ConversationPanel::map_user_message
map_user_message(id, message) ==
    [element |-> "UserMessageView",
     session_id |-> message.session_id,
     contents |-> [i \in 1..Len(message.prompt) |-> map_content_block(message.prompt[i])]]

\* ConversationPanel::map_agent_message
map_agent_message(id, message) ==
    [element |-> "AgentMessage", id |-> id,
     session_id |-> message.session_id,
     chunks |-> [i \in 1..Len(message.chunks) |->
                    [content |-> map_content_block(message.chunks[i].content)]]]

\* ConversationPanel::map_plan_entry
map_plan_entry(entry) ==
    LET priority == to_lowercase(entry.priority)
        status == to_lowercase(entry.status)
    IN  [content |-> entry.content,
         priority |-> CASE priority = Str_high -> "High"
                        [] priority = Str_medium -> "Medium"
                        [] priority = Str_low -> "Low"
                        [] OTHER -> "Medium",
         status |-> CASE status = Str_pending -> "Pending"
                      [] status = Str_in_progress -> "InProgress"
                      [] status = Str_completed -> "Completed"
                      [] OTHER -> "Pending"]

\* ConversationPanel::map_plan
map_plan(plan_schema) ==
    [element |-> "AgentTodoList",
     entries |-> [i \in 1..Len(plan_schema.entries) |-> map_plan_entry(plan_schema.entries[i])]]

\* The match on the lowercased kind.
tool_kind(k) ==
    CASE k = Str_read -> "Read"
      [] k = Str_edit -> "Edit"
      [] k = Str_delete -> "Delete"
      [] k = Str_move -> "Move"
      [] k = Str_search -> "Search"
      [] k = Str_execute -> "Execute"
      [] k = Str_think -> "Think"
      [] k = Str_fetch -> "Fetch"
      [] k = Str_switch_mode -> "SwitchMode"
      [] OTHER -> "Other"

\* The match on the lowercased status.
tool_call_status(st) ==
    CASE st = Str_pending -> "Pending"
      [] st = Str_in_progress \/ st = Str_inprogress -> "InProgress"
      [] st = Str_completed -> "Completed"
      [] st = Str_failed -> "Failed"
      [] OTHER -> "Pending"

\* Mutant of map_tool_call: kind and status are matched as they are written.
map_tool_call_case_sensitive(item) ==
    [element |-> "ToolCallItem",
     open |-> item.open,
     tool_call |->
        [tool_call_id |-> item.data.tool_call_id,
         title |-> item.data.title,
         kind |-> IF item.data.kind = None THEN "Other" ELSE tool_kind(item.data.kind[1]),
         status |-> IF item.data.status = None THEN "Pending"
                    ELSE tool_call_status(item.data.status[1]),
         content |-> [i \in 1..Len(item.data.content) |->
                         [type |-> "Content", text |-> item.data.content[i].text]]]]

\* ConversationPanel::map_tool_call: the ToolCallItem entity, opened as the
\* fixture says.
map_tool_call(item) ==
    [element |-> "ToolCallItem",
     open |-> item.open,
     tool_call |->
        [tool_call_id |-> item.data.tool_call_id,
         title |-> item.data.title,
         kind |-> IF item.data.kind = None THEN "Other"
                  ELSE tool_kind(to_lowercase(item.data.kind[1])),
         status |-> IF item.data.status = None THEN "Pending"
                    ELSE tool_call_status(to_lowercase(item.data.status[1])),
         content |-> [i \in 1..Len(item.data.content) |->
                         [type |-> "Content", text |-> item.data.content[i].text]]]]

\* One arm of the match in render().
render_item(item) ==
    CASE item.type = "UserMessage" -> map_user_message(item.id, item.data)
      [] item.type = "AgentMessage" -> map_agent_message(item.id, item.data)
      [] item.type = "Plan" -> map_plan(item)
      [] item.type = "ToolCallGroup" ->
            [element |-> "ToolCallGroup",
             items |-> [i \in 1..Len(item.items) |-> map_tool_call(item.items[i])]]

\* ConversationPanel::new with a fixture that parses; nothing rendered yet.
InitConversation ==
    /\ NoPanel
    /\ NoViews
    /\ NoDiff
    /\ NoSummary
    /\ NoShown
    /\ NoConfig
    /\ NoTasks
    /\ items \in SeqsUpTo(ConversationItems, MaxItems)
    /\ elements = <<>>

\* ConversationPanel::render: one child per item, in order.
ConversationPanel_render ==
    /\ elements' = [i \in 1..Len(items) |-> render_item(items[i])]
    /\ UNCHANGED <<panelVars, viewVars, diffVars, summaryVars, sortVars, shownVars,
                   configVars, taskVars, items>>

NextConversation == ConversationPanel_render

SpecConversation == InitConversation /\ [][NextConversation]_vars

(***************************************************************************)
(* config_manager (core/config_manager.rs): the user data directory and    *)
(* the config file in it.  `disk` is the environment the functions run in  *)
(* (target OS, what dirs::home_dir and dirs::config_dir return, the        *)
(* embedded default config) and the part of the file system they touch;    *)
(* `returned` is the history of the calls made.                            *)
(***************************************************************************)
MaxCalls == 2       \* calls made in one run

\* anyhow::Result<T>
Ok(value) == [ok |-> TRUE, value |-> value]
Err(error) == [ok |-> FALSE, error |-> error]

\* cfg(target_os = ...)
Platforms == {"macos", "windows", "linux", "other"}

\* Contents of config.json, char by char: the embedded default, a config
\* the user wrote, a truncated file and an empty file.
DefaultConfigText == <<"{", "}">>
UserConfigText == <<"{", "a", "}">>
TruncatedConfigText == <<"{", "a">>
EmptyConfigText == <<>>
ConfigTexts == {DefaultConfigText, UserConfigText, TruncatedConfigText, EmptyConfigText}

\* The environments: the target OS, dirs::home_dir(), dirs::config_dir()
\* and crate::assets::get_default_config().
Environments ==
    [platform : Platforms,
     home_dir : {None, Some(<<"home">>)},
     config_dir : {None, Some(<<"home", ".config">>)},
     default_config : {None, Some(DefaultConfigText)}]

\* The file system under the user data directory: does the directory
\* exist, and what config.json holds (None when there is no such file).
Disks ==
    {fs \in [env : Environments, dir : BOOLEAN, file : {None} \cup {Some(t) : t \in ConfigTexts}] :
        fs.file # None => fs.dir}

\* What the operating system does with one call: create_dir_all and
\* read_to_string succeed or fail, write succeeds, fails before creating
\* the file or fails after creating it empty.
IoOutcomes ==
    [create_dir_all : BOOLEAN, write : {"ok", "failed", "partial"}, read_to_string : BOOLEAN]

\* config_manager::get_user_data_dir
get_user_data_dir(env) ==
    CASE env.platform = "macos" ->
           IF env.home_dir = None THEN Err("Failed to get home directory")
           ELSE Ok(Append(env.home_dir[1], ".agentx"))
      [] env.platform = "windows" ->
           IF env.config_dir = None THEN Err("Failed to get AppData directory")
           ELSE Ok(Append(env.config_dir[1], "agentx"))
      [] env.platform = "linux" ->
           IF env.config_dir = None THEN Err("Failed to get config directory")
           ELSE Ok(Append(env.config_dir[1], "agentx"))
      [] OTHER -> Err("Unsupported platform")

\* config_manager::get_user_config_path
get_user_config_path(env) ==
    LET user_data_dir == get_user_data_dir(env)
    IN  IF user_data_dir.ok THEN Ok(Append(user_data_dir.value, "config.json"))
        ELSE user_data_dir

\* Mutant of initialize_user_config: writes the embedded default whether or
\* not the config file exists.
initialize_user_config_overwrites(fs, io) ==
    LET user_data_dir == get_user_data_dir(fs.env)
        config_path == get_user_config_path(fs.env)
        made == [fs EXCEPT !.dir = TRUE]
    IN  IF ~user_data_dir.ok THEN [disk |-> fs, result |-> user_data_dir]
        ELSE IF ~fs.dir /\ ~io.create_dir_all
        THEN [disk |-> fs, result |-> Err("Failed to create directory")]
        ELSE IF fs.env.default_config = None
        THEN [disk |-> made, result |-> Err("Failed to get embedded default config")]
        ELSE IF io.write = "failed"
        THEN [disk |-> made, result |-> Err("Failed to write config file")]
        ELSE IF io.write = "partial"
        THEN [disk |-> [made EXCEPT !.file = Some(EmptyConfigText)],
              result |-> Err("Failed to write config file")]
        ELSE [disk |-> [made EXCEPT !.file = fs.env.default_config], result |-> config_path]

\* config_manager::initialize_user_config: the disk it leaves and the
\* Result it returns.
initialize_user_config(fs, io) ==
    LET user_data_dir == get_user_data_dir(fs.env)
        config_path == get_user_config_path(fs.env)
        made == [fs EXCEPT !.dir = TRUE]
    IN  IF ~user_data_dir.ok THEN [disk |-> fs, result |-> user_data_dir]
        ELSE IF ~fs.dir /\ ~io.create_dir_all
        THEN [disk |-> fs, result |-> Err("Failed to create directory")]
        ELSE IF made.file = None
        THEN IF fs.env.default_config = None
             THEN [disk |-> made, result |-> Err("Failed to get embedded default config")]
             ELSE IF io.write = "failed"
             THEN [disk |-> made, result |-> Err("Failed to write config file")]
             ELSE IF io.write = "partial"
             THEN [disk |-> [made EXCEPT !.file = Some(EmptyConfigText)],
                   result |-> Err("Failed to write config file")]
             ELSE [disk |-> [made EXCEPT !.file = fs.env.default_config],
                   result |-> config_path]
        ELSE [disk |-> made, result |-> config_path]

\* serde_json::from_str::<Config>: an object in braces parses to the Config
\* of its members, anything else is an error.
from_str(json) ==
    IF /\ Len(json) >= 2
       /\ json[1] = "{"
       /\ json[Len(json)] = "}"
       /\ \A i \in 2..(Len(json) - 1) : json[i] \notin {"{", "}"}
    THEN Ok([members |-> SubSeq(json, 2, Len(json) - 1)])
    ELSE Err("expected value")

\* config_manager::load_user_config: the disk it leaves and the Result it
\* returns.
load_user_config(fs, io) ==
    LET initialized == initialize_user_config(fs, io)
    IN  IF ~initialized.result.ok THEN initialized
        ELSE IF ~io.read_to_string
        THEN [disk |-> initialized.disk, result |-> Err("Failed to read config file")]
        ELSE IF ~from_str(initialized.disk.file[1]).ok
        THEN [disk |-> initialized.disk, result |-> Err("Failed to parse config file")]
        ELSE [disk |-> initialized.disk, result |-> from_str(initialized.disk.file[1])]

\* The operating system let every step of the call through and the build
\* embeds a default config.
Undisturbed(fs, io) ==
    /\ get_user_data_dir(fs.env).ok
    /\ fs.env.default_config # None
    /\ io.create_dir_all
    /\ io.write = "ok"
    /\ io.read_to_string

\* Any environment and any state of the user data directory; no call yet.
InitConfig ==
    /\ NoPanel
    /\ NoViews
    /\ NoDiff
    /\ NoSummary
    /\ NoShown
    /\ NoTasks
    /\ NoConversation
    /\ disk \in Disks
    /\ returned = <<>>

\* One call of initialize_user_config().
InitializeUserConfig ==
    /\ Len(returned) < MaxCalls
    /\ \E io \in IoOutcomes :
          LET outcome == initialize_user_config(disk, io)
          IN  /\ disk' = outcome.disk
              /\ returned' = Append(returned,
                                [op |-> "initialize_user_config", before |-> disk,
                                 after |-> outcome.disk, result |-> outcome.result,
                                 undisturbed |-> Undisturbed(disk, io)])
    /\ UNCHANGED <<panelVars, viewVars, diffVars, summaryVars, sortVars, shownVars,
                   taskVars, convVars>>

\* One call of load_user_config().
LoadUserConfig ==
    /\ Len(returned) < MaxCalls
    /\ \E io \in IoOutcomes :
          LET outcome == load_user_config(disk, io)
          IN  /\ disk' = outcome.disk
              /\ returned' = Append(returned,
                                [op |-> "load_user_config", before |-> disk,
                                 after |-> outcome.disk, result |-> outcome.result,
                                 undisturbed |-> Undisturbed(disk, io)])
    /\ UNCHANGED <<panelVars, viewVars, diffVars, summaryVars, sortVars, shownVars,
                   taskVars, convVars>>

NextConfig == InitializeUserConfig \/ LoadUserConfig

SpecConfig == InitConfig /\ [][NextConfig]_vars

(***************************************************************************)
(* TaskListDelegate (panels/task_list/types.rs): the task list grouped by  *)
(* task type under the current query.                                      *)
(***************************************************************************)
MaxTasks == 3       \* longest task list

\* AgentTask values: a name and a task type.
AgentTasks ==
    [name : {<<"A", "b">>, <<"c">>}, task_type : {"Finance", "Retail"}]

\* The task lists load_mock_tasks() may return.
MockTasks == SeqsUpTo(AgentTasks, MaxTasks)

\* The queries typed into the list.
Queries == {<<>>, <<"a">>, <<"B">>, <<"a", "B">>, <<"z">>}

\* str::contains
contains(haystack, needle) ==
    \E k \in 0..(Len(haystack) - Len(needle)) :
       SubSeq(haystack, k + 1, k + Len(needle)) = needle

\* Vec::iter().position
position(vec, value) ==
    IF \E i \in 1..Len(vec) : vec[i] = value
    THEN Some(CHOOSE i \in 1..Len(vec) : vec[i] = value /\ \A j \in 1..(i - 1) : vec[j] # value)
    ELSE None

\* The loop of prepare(): each task joins the section of its task type, or
\* opens a new one.
RECURSIVE group_tasks(_, _)
group_tasks(self, agent_tasks) ==
    IF agent_tasks = <<>> THEN self
    ELSE LET agent_task == Head(agent_tasks)
             ix == position(self.industries, agent_task.task_type)
         IN  IF ix # None
             THEN group_tasks(
                     [self EXCEPT !.matched_agent_tasks[ix[1]] = Append(@, agent_task)],
                     Tail(agent_tasks))
             ELSE group_tasks(
                     [self EXCEPT !.industries = Append(@, agent_task.task_type),
                                  !.matched_agent_tasks = Append(@, <<agent_task>>)],
                     Tail(agent_tasks))

\* The tasks whose lower-cased name contains the lower-cased query.
filter_tasks(agent_tasks, query) ==
    LET Matches(agent_task) == contains(to_lowercase(agent_task.name), to_lowercase(query))
    IN  SelectSeq(agent_tasks, Matches)

\* Mutant of prepare: the previous industries and sections are not cleared.
prepare_without_clear(self, query) ==
    group_tasks([self EXCEPT !.query = query], filter_tasks(self.agent_tasks, query))

\* TaskListDelegate::prepare
prepare(self, query) ==
    group_tasks([self EXCEPT !.query = query, !.industries = <<>>,
                             !.matched_agent_tasks = <<>>],
                filter_tasks(self.agent_tasks, query))

\* TaskListDelegate::load_all_tasks
load_all_tasks(self, mock_tasks) ==
    prepare([self EXCEPT !.agent_tasks = mock_tasks], self.query)

\* TaskListDelegate::new
InitTasks ==
    /\ NoPanel
    /\ NoViews
    /\ NoDiff
    /\ NoSummary
    /\ NoShown
    /\ NoConfig
    /\ NoConversation
    /\ delegate = [industries |-> <<>>, matched_agent_tasks |-> <<>>, agent_tasks |-> <<>>,
                   query |-> <<>>]

\* delegate.prepare(query)
Prepare ==
    /\ \E query \in Queries : delegate' = prepare(delegate, query)
    /\ UNCHANGED <<panelVars, viewVars, diffVars, summaryVars, sortVars, shownVars,
                   configVars, convVars>>

\* delegate.load_all_tasks()
LoadAllTasks ==
    /\ \E mock_tasks \in MockTasks : delegate' = load_all_tasks(delegate, mock_tasks)
    /\ UNCHANGED <<panelVars, viewVars, diffVars, summaryVars, sortVars, shownVars,
                   configVars, convVars>>

NextTasks == Prepare \/ LoadAllTasks

SpecTasks == InitTasks /\ [][NextTasks]_vars

(***************************************************************************)
(* The transcript: `updates` while render() collects, `children` after.    *)
(***************************************************************************)
\* The update the iterator is about to render.
NextUpdate == session_updates[Len(updates) + 1]

\* render() is about to apply an update of this kind.
Applying(kind) ==
    /\ pc = "render"
    /\ Len(updates) < Len(session_updates)
    /\ NextUpdate.sessionUpdate = kind

IsToolCallFor(update, t) ==
    update.sessionUpdate = "ToolCall" /\ update.tool_call_id = t

IsToolCallUpdateFor(update, t) ==
    update.sessionUpdate = "ToolCallUpdate" /\ update.tool_call_id = t

IsMessageChunk(update) ==
    update.sessionUpdate \in {"UserMessageChunk", "AgentMessageChunk"}

IsMessageItem(e) == e.element \in {"UserMessage", "AgentMessage"}

\* Positions of elems whose event satisfies P.
EventsAt(elems, P(_)) == {i \in 1..Len(elems) : P(session_updates[i])}

\* Positions of elems whose item satisfies P.
ItemsAt(elems, P(_)) == {i \in 1..Len(elems) : P(elems[i])}

\* children is empty before the first render() and complete after it.
ChildrenComplete == children = <<>> \/ Len(children) = Len(session_updates)

Prefix(s, t) == Len(s) <= Len(t) /\ SubSeq(t, 1, Len(s)) = s

----------------------------------------------------------------------------
InArrivalOrder(elems) ==
    /\ Len(elems) <= Len(session_updates)
    /\ \A i \in 1..Len(elems) :
          elems[i] = render_session_update(session_updates[i], i - 1)

\* C1: transcript items appear in exactly the arrival order of the events
\* that produced them: the i-th item is the item of the i-th event, at every
\* point of the pass and in the finished transcript, and a later event never
\* reorders or changes the items collected before it.
C1_ArrivalOrder ==
    /\ [](InArrivalOrder(updates) /\ InArrivalOrder(children) /\ ChildrenComplete)
    /\ [][(pc = "render" /\ pc' = "render") => Prefix(updates, updates')]_vars
    /\ [][children # <<>> => children' = children]_vars

\* The scenario [UserMessageChunk, AgentMessageChunk, UserMessageChunk] rendered.
C1_Witness ==
    /\ pc = "idle"
    /\ Len(children) = 3
    /\ children[1].element = "UserMessage" /\ children[1].id = "user-msg-0"
    /\ children[2].element = "AgentMessage" /\ children[2].id = "agent-msg-1"
    /\ children[3].element = "UserMessage" /\ children[3].id = "user-msg-2"

----------------------------------------------------------------------------
OneItemPerChunk(elems) ==
    /\ Cardinality(ItemsAt(elems, IsMessageItem)) = Cardinality(EventsAt(elems, IsMessageChunk))
    /\ \A i \in 1..Len(elems) :
          /\ session_updates[i].sessionUpdate = "UserMessageChunk" =>
                /\ elems[i].element = "UserMessage"
                /\ elems[i].contents = <<session_updates[i].chunk.content>>
          /\ session_updates[i].sessionUpdate = "AgentMessageChunk" =>
                /\ elems[i].element = "AgentMessage"
                /\ elems[i].chunks = <<session_updates[i].chunk>>

MessageStepAppendsOne ==
    (Applying("UserMessageChunk") \/ Applying("AgentMessageChunk")) =>
        /\ Len(updates') = Len(updates) + 1
        /\ Prefix(updates, updates')
        /\ IsMessageItem(updates'[Len(updates')])

\* C2: every UserMessageChunk and every AgentMessageChunk event appends exactly
\* one item wrapping that single chunk; consecutive chunks of the same kind are
\* not coalesced, so k message-chunk events give exactly k message items.
C2_OneItemPerChunk ==
    /\ [](OneItemPerChunk(updates) /\ OneItemPerChunk(children))
    /\ [][MessageStepAppendsOne]_vars

\* Two consecutive user chunks with different content, each its own item.
C2_Witness ==
    /\ pc = "idle"
    /\ Len(children) >= 2
    /\ children[1].element = "UserMessage" /\ children[2].element = "UserMessage"
    /\ children[1].contents = << [type |-> "Text", text |-> "hello"] >>
    /\ children[2].contents = << [type |-> "Image", mime_type |-> "image/png"] >>

----------------------------------------------------------------------------
\* Tool calls in the transcript.
IsToolCall(update) == update.sessionUpdate = "ToolCall"

IsToolCallItem(e) == e.element = "ToolCallDiv"

\* Positions of the tool-call items of elems that come from a ToolCall event for t.
ToolCallItemsFor(elems, t) ==
    {i \in 1..Len(elems) : IsToolCallItem(elems[i]) /\ IsToolCallFor(session_updates[i], t)}

\* Positions, within the first n events, of the ToolCall events for t.
ToolCallEventsFor(n, t) ==
    {i \in 1..n : IsToolCallFor(session_updates[i], t)}

\* The status t would have after the events i+1..n if updates were merged into
\* it: that of the last ToolCallUpdate for t that carried one, else `status`.
RECURSIVE StatusAfter(_, _, _, _)
StatusAfter(t, status, i, n) ==
    IF i >= n THEN status
    ELSE LET u == session_updates[i + 1]
         IN  StatusAfter(t,
                         IF IsToolCallUpdateFor(u, t) /\ u.fields.status # None
                         THEN u.fields.status[1] ELSE status,
                         i + 1, n)

----------------------------------------------------------------------------
\* C3 (as stated): applying a ToolCallUpdate never appends a transcript item;
\* the transcript is the same before and after the update.
C3_UpdateAppendsNothing ==
    [][Applying("ToolCallUpdate") => updates' = updates]_vars

\* C3 (amended): applying a ToolCallUpdate appends exactly one informational
\* item, "Tool Call Update: <id>"; the items collected before it, the tool-call
\* items among them, are unchanged.
C3_UpdateAppendsTextItem ==
    [][Applying("ToolCallUpdate") =>
          /\ updates' = Append(updates, TextDiv("Tool Call Update: " \o NextUpdate.tool_call_id))
          /\ children' = children]_vars

\* A tool call followed by its update: two items.
C3_Witness ==
    /\ pc = "render"
    /\ Len(updates) = 2
    /\ IsToolCallItem(updates[1])
    /\ IsToolCallFor(session_updates[1], "t1")
    /\ updates[2] = TextDiv("Tool Call Update: t1")

----------------------------------------------------------------------------
ShowsCreationStatus(elems) ==
    \A t \in ToolCallIds : \A i \in 1..Len(elems) :
        IsToolCallFor(session_updates[i], t) =>
            /\ IsToolCallItem(elems[i])
            /\ elems[i].status = "Status: " \o session_updates[i].status
            /\ ToolCallEventsFor(Len(elems), t) = {i} => ToolCallItemsFor(elems, t) = {i}

----------------------------------------------------------------------------
\* The update at position i names an id that no earlier ToolCall event created.
UnknownIdAt(i) ==
    /\ session_updates[i].sessionUpdate = "ToolCallUpdate"
    /\ \A j \in 1..(i - 1) : ~IsToolCallFor(session_updates[j], session_updates[i].tool_call_id)

\* C7 (as stated): a ToolCallUpdate whose id was never created yields an
\* UnknownIdError outcome (and processing goes on).
C7_UnknownIdError ==
    \A i \in 1..Len(updates) : UnknownIdAt(i) => updates[i].element = "UnknownIdError"

UnknownIdHarmless(elems) ==
    \A i \in 1..Len(elems) :
        UnknownIdAt(i) =>
            /\ elems[i] = TextDiv("Tool Call Update: " \o session_updates[i].tool_call_id)
            /\ \A j \in (i + 1)..Len(elems) :
                  elems[j] = render_session_update(session_updates[j], j - 1)

\* C7 (amended): a ToolCallUpdate whose id was never created never stops
\* render(): it yields the same informational item as any other update (there
\* is no UnknownIdError), and every event after it is rendered as usual.
C7_UnknownIdRendered ==
    /\ UnknownIdHarmless(updates)
    /\ UnknownIdHarmless(children)
    /\ ChildrenComplete
    /\ Applying("ToolCallUpdate") => ENABLED RenderNext

\* An update for the never-created t2, then a user message, both rendered.
C7_Witness ==
    /\ pc = "idle"
    /\ Len(children) = 2
    /\ UnknownIdAt(1)
    /\ children[1] = TextDiv("Tool Call Update: t2")
    /\ children[2].element = "UserMessage"

----------------------------------------------------------------------------
\* The ToolCall event at position i names an id an earlier ToolCall event named.
DuplicateAt(i) ==
    /\ IsToolCall(session_updates[i])
    /\ \E j \in 1..(i - 1) : IsToolCallFor(session_updates[j], session_updates[i].tool_call_id)

AtMostOnePerId(elems) ==
    \A t \in ToolCallIds : Cardinality(ToolCallItemsFor(elems, t)) <= 1

\* C8 (as stated): a second ToolCall event for an existing id is rejected and
\* does not produce a second tool call for that id.
C8_DuplicateRejected ==
    \A i \in 1..Len(updates) : DuplicateAt(i) => ~IsToolCallItem(updates[i])

DuplicateRendered(elems) ==
    \A i \in 1..Len(elems) :
        DuplicateAt(i) =>
            /\ elems[i] = render_tool_call(session_updates[i])
            /\ Cardinality(ToolCallItemsFor(elems, session_updates[i].tool_call_id)) >= 2

\* C8 (amended): a ToolCall event for an existing id is not rejected (there is
\* no DuplicateIdError): like every ToolCall event it produces its own
\* tool-call item with its own title and status, so the id then has two items.
C8_DuplicateRendered ==
    DuplicateRendered(updates) /\ DuplicateRendered(children)

\* [ToolCall{t1, Pending}, ToolCall{t1, Failed}] rendered as two items.
C8_Witness ==
    /\ pc = "idle"
    /\ Len(children) = 2
    /\ DuplicateAt(2)
    /\ children[1].status = "Status: Pending"
    /\ children[2].status = "Status: Failed"
    /\ ToolCallItemsFor(children, "t1") = {1, 2}

----------------------------------------------------------------------------
\* Every ToolCall event already applied has its tool-call item in elems.
StillPresent(elems) ==
    \A i \in 1..Len(elems) :
        IsToolCall(session_updates[i]) =>
            i \in ToolCallItemsFor(elems, session_updates[i].tool_call_id)

\* C9 (as stated): at most one tool call per tool_call_id is held, and a tool
\* call once created is still there after any later events.
C9_UniqueAndNeverRemoved ==
    /\ AtMostOnePerId(updates) /\ AtMostOnePerId(children)
    /\ StillPresent(updates) /\ StillPresent(children)

ItemsKept(elems, elemsAfter) ==
    \A t \in ToolCallIds : ToolCallItemsFor(elems, t) \subseteq ToolCallItemsFor(elemsAfter, t)

\* C9 (amended): a tool call once created is never removed: the item of every
\* ToolCall event already applied stays in the transcript through every later
\* event; but an id named by several ToolCall events has several items.
C9_NeverRemoved ==
    /\ [](StillPresent(updates) /\ StillPresent(children))
    /\ [][(pc = "render" /\ pc' = "render") => ItemsKept(updates, updates')]_vars
    /\ [][children # <<>> => ItemsKept(children, children')]_vars

\* t1 created, then an update completing it and another event: still there.
C9_Witness ==
    /\ pc = "idle"
    /\ Len(children) = 3
    /\ IsToolCallFor(session_updates[1], "t1")
    /\ IsToolCallUpdateFor(session_updates[2], "t1")
    /\ session_updates[2].fields.status = Some("Completed")
    /\ session_updates[3].sessionUpdate = "AgentMessageChunk"
    /\ ToolCallItemsFor(children, "t1") = {1}

----------------------------------------------------------------------------
\* The tool calls of the transcript, in transcript order.
list(elems) == SelectSeq(elems, IsToolCallItem)

\* The ToolCall events among the first n, in arrival order.
created(n) == SelectSeq(SubSeq(session_updates, 1, n), IsToolCall)

InCreationOrder(elems) ==
    list(elems) = [k \in 1..Len(created(Len(elems))) |-> render_tool_call(created(Len(elems))[k])]

----------------------------------------------------------------------------
\* The step was made by operation op of a view that exists before and after.
StepOf(op) ==
    /\ lastOp'.op = op
    /\ lastOp'.view \in DOMAIN views
    /\ lastOp'.view \in DOMAIN views'

\* Nothing but view v is touched: the other views and the set of views.
OthersUnchanged(v) ==
    /\ DOMAIN views' = DOMAIN views
    /\ \A w \in DOMAIN views \ {v} : views'[w] = views[w]

MergesByPresence ==
    LET v == lastOp'.view
        before == views[v]
        after == views'[v]
    IN  /\ StepOf("update_status") =>
              /\ after.tool_call = [before.tool_call EXCEPT !.status = lastOp'.arg]
              /\ after.open = before.open
              /\ OthersUnchanged(v)
        /\ StepOf("set_content") =>
              /\ after.tool_call = [before.tool_call EXCEPT !.content = lastOp'.arg]
              /\ after.open = before.open
              /\ OthersUnchanged(v)
        /\ StepOf("update_tool_call") =>
              /\ after.tool_call = lastOp'.arg
              /\ after.open = before.open
              /\ OthersUnchanged(v)

----------------------------------------------------------------------------
\* C6: replacing a tool call's content is a full overwrite: the content list is
\* then exactly the supplied list, whatever the content was before, and none of
\* the previous items remains unless the supplied list names it.
C6_SetContentOverwrites ==
    (lastOp.op = "set_content" /\ lastOp.view \in DOMAIN views) =>
        views[lastOp.view].tool_call.content = lastOp.arg

\* Two items were replaced by one other item.
C6_Witness ==
    /\ lastOp.op = "set_content"
    /\ lastOp.before = <<ContentItem, ContentItem>>
    /\ lastOp.arg = <<DiffItem>>
    /\ views[lastOp.view].tool_call.content = <<DiffItem>>

-----------------------------------------------------------------------------
\* The tool call of view v is not the same value after the step.
Mutated(v) ==
    /\ v \in DOMAIN views
    /\ v \in DOMAIN views'
    /\ views'[v].tool_call # views[v].tool_call

-----------------------------------------------------------------------------
IsPlan(update) == update.sessionUpdate = "Plan"

\* The plan on display: the todo list of the last Plan event rendered.
CurrentPlan(elems) ==
    LET plans == {i \in 1..Len(elems) : IsPlan(session_updates[i])}
    IN  IF plans = {} THEN None
        ELSE Some(elems[CHOOSE i \in plans : \A j \in plans : j <= i])

LastPlanEvent(n) ==
    LET plans == {i \in 1..n : IsPlan(session_updates[i])}
    IN  IF plans = {} THEN None
        ELSE Some(session_updates[CHOOSE i \in plans : \A j \in plans : j <= i])

PlanOfLastEvent(elems) ==
    /\ \A i \in 1..Len(elems) :
          IsPlan(session_updates[i]) =>
             /\ elems[i].element = "AgentTodoList"
             /\ elems[i].entries = session_updates[i].entries
    /\ CurrentPlan(elems) = None <=> LastPlanEvent(Len(elems)) = None
    /\ CurrentPlan(elems) # None =>
          CurrentPlan(elems)[1].entries = LastPlanEvent(Len(elems))[1].entries

-----------------------------------------------------------------------------
\* The kinds render_session_update has an arm for.
RecognisedKinds ==
    {"UserMessageChunk", "AgentMessageChunk", "AgentThoughtChunk", "ToolCall",
     "ToolCallUpdate", "Plan", "AvailableCommandsUpdate", "CurrentModeUpdate"}

UnknownKindAt(i) == session_updates[i].sessionUpdate \notin RecognisedKinds

UnknownKindHarmless(elems) ==
    \A i \in 1..Len(elems) :
        UnknownKindAt(i) =>
            /\ elems[i] = TextDiv("Unknown session update")
            /\ \A j \in 1..Len(elems) :
                  j # i => elems[j] = render_session_update(session_updates[j], j - 1)

\* C13: an event of an unrecognised kind is recorded as an opaque placeholder
\* item and never aborts the pass: the step that renders it is always
\* possible, every event after it gets its normal item, and the items before
\* it (tool calls and plans among them) are what they were.
C13_UnknownKindPlaceholder ==
    /\ UnknownKindHarmless(updates)
    /\ UnknownKindHarmless(children)
    /\ Applying("FutureVariant") => ENABLED RenderNext

\* A tool call, an event of an unknown kind, then a plan: all three rendered.
C13_Witness ==
    /\ pc = "idle"
    /\ Len(children) = 3
    /\ children[1].element = "ToolCallDiv"
    /\ UnknownKindAt(2)
    /\ children[2] = TextDiv("Unknown session update")
    /\ children[3].element = "AgentTodoList"

-----------------------------------------------------------------------------
\* The well-formed items of the JSON array, in order.
WellFormed(json) ==
    LET valid == SelectSeq(json, LAMBDA item : item.json = "valid")
    IN  [i \in 1..Len(valid) |-> valid[i].update]

HasMalformed(json) == \E i \in 1..Len(json) : json[i].json = "malformed"

-----------------------------------------------------------------------------
\* C15 (as stated): no input stream brings processing to a panic/abort
\* state; the worst outcome is a dropped or placeholder-rendered event.
C15_NoPanic == pc # "panic"

-----------------------------------------------------------------------------
\* The number of newline-delimited lines of a text: one per newline, and one
\* more for what follows the last newline, if anything does.
NewlineDelimitedLines(text) ==
    Cardinality({i \in 1..Len(text) : text[i] = NL})
    + (IF text # <<>> /\ text[Len(text)] # NL THEN 1 ELSE 0)

\* C16: for a diff with no old text, deletions = 0, is_new_file = true and
\* additions is the number of newline-delimited lines of the new text, a
\* trailing newline adding no extra empty line (two lines that both end in a
\* newline give 2, the empty text gives 0).
C16_NewFileCountsLines ==
    (stats # None /\ old_text = None) =>
        /\ stats[1].deletions = 0
        /\ stats[1].is_new_file
        /\ stats[1].additions = NewlineDelimitedLines(new_text)
        /\ new_text = <<>> => stats[1].additions = 0
        /\ new_text = <<"a", NL, "b", NL>> => stats[1].additions = 2

\* "a\nb\n" as a new file: 2 additions.
C16_Witness ==
    /\ old_text = None
    /\ new_text = <<"a", NL, "b", NL>>
    /\ stats = Some([path |-> DiffPath, additions |-> 2, deletions |-> 0,
                     is_new_file |-> TRUE])

\* C17: for a diff whose old text is present and equal to the new text,
\* additions = 0 and deletions = 0; and is_new_file is false whenever the
\* old text is present, the empty string included.
C17_IdenticalTextsNoChanges ==
    /\ (stats # None /\ old_text = Some(new_text)) =>
          stats[1].additions = 0 /\ stats[1].deletions = 0
    /\ (stats # None /\ old_text # None) => ~stats[1].is_new_file

\* The old text is present and empty, like the new text.
C17_Witness ==
    /\ old_text = Some(<<>>)
    /\ new_text = <<>>
    /\ stats = Some([path |-> DiffPath, additions |-> 0, deletions |-> 0,
                     is_new_file |-> FALSE])

\* C18: for a diff with the old text present, every old line is Equal or
\* counted as exactly one Delete and every new line is Equal or counted as
\* exactly one Insert, so lines(old) - deletions = lines(new) - additions;
\* replacing the line b of "a\nb\nc\n" by x gives additions = 1 and
\* deletions = 1.
C18_LinesBalance ==
    (stats # None /\ old_text # None) =>
        /\ stats[1].deletions <= Len(lines(old_text[1]))
        /\ stats[1].additions <= Len(lines(new_text))
        /\ Len(lines(old_text[1])) - stats[1].deletions
              = Len(lines(new_text)) - stats[1].additions
        /\ (/\ old_text[1] = <<"a", NL, "b", NL, "c", NL>>
            /\ new_text = <<"a", NL, "x", NL, "c", NL>>) =>
              stats[1].additions = 1 /\ stats[1].deletions = 1

\* The middle line of three replaced.
C18_Witness ==
    /\ old_text = Some(<<"a", NL, "b", NL, "c", NL>>)
    /\ new_text = <<"a", NL, "x", NL, "c", NL>>
    /\ stats # None
    /\ stats[1].additions = 1
    /\ stats[1].deletions = 1

-----------------------------------------------------------------------------
\* The Diff items of the tool calls in the order the loops reach them.
RECURSIVE DiffsVisited(_)
DiffsVisited(calls) ==
    IF calls = <<>> THEN <<>>
    ELSE SelectSeq(Head(calls).content, LAMBDA c : c.type = "Diff")
         \o DiffsVisited(Tail(calls))

LastOf(diffs, path) ==
    diffs[CHOOSE i \in 1..Len(diffs) :
             /\ diffs[i].path = path
             /\ \A j \in (i + 1)..Len(diffs) : diffs[j].path # path]

\* C19: aggregation visits every Diff item of every tool call, whatever the
\* status of the tool call, in list order, and keys the results by path: the
\* summary has exactly one entry per distinct path, and the entry of a path
\* named by several diffs holds the statistics of the last one visited
\* (earlier ones are overwritten, not summed).
C19_LastDiffPerPath ==
    summary # None =>
       LET diffs == DiffsVisited(tool_calls)
           files == summary[1].files
       IN  /\ DOMAIN files = {diffs[i].path : i \in 1..Len(diffs)}
           /\ total_files(summary[1]) = Cardinality({diffs[i].path : i \in 1..Len(diffs)})
           /\ \A path \in DOMAIN files :
                 LET last == LastOf(diffs, path)
                 IN  files[path] = from_diff(path, last.old_text, last.new_text)

\* A completed tool call creates src/a.rs, a failed one rewrites it: one
\* entry, with the statistics of the rewrite.
C19_Witness ==
    /\ Len(tool_calls) = 2
    /\ tool_calls[1].status = "Completed" /\ tool_calls[1].content = <<DiffNewA>>
    /\ tool_calls[2].status = "Failed" /\ tool_calls[2].content = <<ContentItem, DiffEditA>>
    /\ summary = Some([files |-> ("src/a.rs" :>
                         [path |-> "src/a.rs", additions |-> 1, deletions |-> 2,
                          is_new_file |-> FALSE])])

-----------------------------------------------------------------------------
\* C21: sorted_files() returns every entry of the summary exactly once,
\* ordered by additions + deletions descending: of two adjacent returned
\* entries the earlier has a total greater than or equal to the later one's.
C21_SortedByTotalDescending ==
    sorted # None =>
       LET files == summary[1].files
           result == sorted[1]
       IN  /\ Len(result) = Cardinality(DOMAIN files)
           /\ \A path \in DOMAIN files :
                 Cardinality({i \in 1..Len(result) : result[i] = files[path]}) = 1
           /\ \A i \in 1..(Len(result) - 1) :
                 result[i].additions + result[i].deletions
                    >= result[i + 1].additions + result[i + 1].deletions

\* Three files with totals 3, 2 and 1, returned in that order.
C21_Witness ==
    /\ sorted # None
    /\ Len(sorted[1]) = 3
    /\ sorted[1][1].path = "src/a.rs" /\ total_changes(sorted[1][1]) = 3
    /\ sorted[1][2].path = "src/c.rs" /\ total_changes(sorted[1][2]) = 2
    /\ sorted[1][3].path = "src/b.rs" /\ total_changes(sorted[1][3]) = 1

\* C22 (as stated): entries with equal additions + deletions come back in a
\* deterministic order: summaries built from the same tool-call list return
\* the tied entries in the same relative order on every call.  (The list of
\* tool calls never changes here, so every summary is built from the same
\* list.)
C22_TiesDeterministic ==
    [][(sorted # None /\ sorted' # None) => sorted' = sorted]_vars

-----------------------------------------------------------------------------
\* C24 (as stated): the diff summary shown is always the aggregation of the
\* current tool calls: in every reachable state the DiffSummaryData on
\* display equals from_tool_calls of the tool calls of that moment.
C24_ShownIsCurrentAggregate ==
    data # None => data[1] = from_tool_calls(CurrentToolCalls)

\* C24 (amended): the diff summary shown is the DiffSummaryData last handed
\* to update_data (or to new): an update_data with the aggregation of the
\* current tool calls makes it equal to that aggregation, and every other
\* step, a change of a tool call's content included, leaves it as it was.
C24_ShownIsLastGiven ==
    [][IF lastOp'.op = "update_data"
       THEN data'[1] = lastOp'.arg /\ data'[1] = from_tool_calls(CurrentToolCalls')
       ELSE data' = data]_vars

\* The content of a tool call was replaced and the summary refreshed after.
C24_Witness ==
    /\ lastOp.op = "update_data"
    /\ DOMAIN views = {"v1", "v2"}
    /\ views["v1"].tool_call.content = <<DiffEmptyB, DiffNewA>>
    /\ views["v2"].tool_call.content = <<>>
    /\ DOMAIN data[1].files = {"src/a.rs", "src/b.rs"}

-----------------------------------------------------------------------------
\* Two chars are the same letter, whatever their case.
SameLetter(c, d) ==
    c = d \/ \E i \in 1..Len(UpperCase) : {c, d} = {UpperCase[i], LowerCase[i]}

\* Two strings are equal once case is ignored.
EqualIgnoringCase(str, word) ==
    /\ Len(str) = Len(word)
    /\ \A i \in 1..Len(str) : SameLetter(str[i], word[i])

KindWords ==
    {Str_read, Str_edit, Str_delete, Str_move, Str_search, Str_execute, Str_think,
     Str_fetch, Str_switch_mode}

ToolKinds ==
    {"Read", "Edit", "Delete", "Move", "Search", "Execute", "Think", "Fetch",
     "SwitchMode", "Other"}

StatusWords == {Str_pending, Str_in_progress, Str_inprogress, Str_completed, Str_failed}

\* The tool-call items of the fixture, each with the entity render() made of it.
MappedToolCalls ==
    {<<items[ij[1]].items[ij[2]], elements[ij[1]].items[ij[2]]>> :
        ij \in {ij \in (1..Len(elements)) \X (1..MaxItems) :
                  /\ items[ij[1]].type = "ToolCallGroup"
                  /\ ij[2] <= Len(items[ij[1]].items)}}

\* C23: tool-call kind and status strings are matched case-insensitively on
\* ingestion, "in_progress" and "InProgress" giving the same status; an
\* unrecognised or absent kind maps to Other, an unrecognised or absent
\* status to Pending, and the mapping always yields a value.
C23_ToolCallStringsCaseInsensitive ==
    /\ \A p \in MappedToolCalls :
          LET kind == p[1].data.kind
              status == p[1].data.status
              mapped == p[2].tool_call
          IN  /\ mapped.kind \in ToolKinds
              /\ mapped.status \in ToolCallStatus
              /\ kind = None => mapped.kind = "Other"
              /\ status = None => mapped.status = "Pending"
              /\ (kind # None /\ \A w \in KindWords : ~EqualIgnoringCase(kind[1], w))
                    => mapped.kind = "Other"
              /\ (status # None /\ \A w \in StatusWords : ~EqualIgnoringCase(status[1], w))
                    => mapped.status = "Pending"
              /\ (status # None /\ status[1] \in {Str_in_progress, Str_InProgress})
                    => mapped.status = "InProgress"
    /\ \A p, q \in MappedToolCalls :
          /\ (/\ p[1].data.kind # None /\ q[1].data.kind # None
              /\ EqualIgnoringCase(p[1].data.kind[1], q[1].data.kind[1]))
                => p[2].tool_call.kind = q[2].tool_call.kind
          /\ (/\ p[1].data.status # None /\ q[1].data.status # None
              /\ EqualIgnoringCase(p[1].data.status[1], q[1].data.status[1]))
                => p[2].tool_call.status = q[2].tool_call.status

\* One group with "Edit"/"in_progress" and "edit"/"InProgress": both items
\* are Edit and InProgress.
C23_Witness ==
    /\ Len(elements) = 1
    /\ items[1].type = "ToolCallGroup"
    /\ Len(items[1].items) = 2
    /\ items[1].items[1].data.status = Some(Str_in_progress)
    /\ items[1].items[2].data.status = Some(Str_InProgress)
    /\ elements[1].items[1].tool_call.status = "InProgress"
    /\ elements[1].items[2].tool_call.status = "InProgress"
    /\ elements[1].items[1].tool_call.kind = "Edit"
    /\ elements[1].items[2].tool_call.kind = "Edit"

\* The plan entries of the fixture, each with the entry render() made of it.
MappedPlanEntries ==
    {<<items[ij[1]].entries[ij[2]], elements[ij[1]].entries[ij[2]]>> :
        ij \in {ij \in (1..Len(elements)) \X (1..MaxItems) :
                  /\ items[ij[1]].type = "Plan"
                  /\ ij[2] <= Len(items[ij[1]].entries)
                  /\ ij[2] <= Len(elements[ij[1]].entries)}}

\* C29 (as stated): mapping a plan keeps the number and order of its
\* entries and maps each entry's strings case-insensitively: status
\* "in_progress" and "InProgress" map to the same status value, an
\* unrecognised status maps to Pending and an unrecognised priority to
\* Medium.
C29_PlanStringsCaseInsensitive ==
    /\ \A i \in 1..Len(elements) :
          items[i].type = "Plan" =>
             /\ Len(elements[i].entries) = Len(items[i].entries)
             /\ \A j \in 1..Len(items[i].entries) :
                   elements[i].entries[j].content = items[i].entries[j].content
    /\ \A p \in MappedPlanEntries :
          /\ (\A w \in {Str_pending, Str_in_progress, Str_inprogress, Str_completed} :
                 ~EqualIgnoringCase(p[1].status, w)) => p[2].status = "Pending"
          /\ (\A w \in {Str_high, Str_medium, Str_low} :
                 ~EqualIgnoringCase(p[1].priority, w)) => p[2].priority = "Medium"
    /\ \A p, q \in MappedPlanEntries :
          (p[1].status = Str_in_progress /\ q[1].status = Str_InProgress)
             => p[2].status = q[2].status

-----------------------------------------------------------------------------
\* C25 (as stated): load_user_config falls back to the embedded default
\* configuration both when the config file does not exist and when it
\* exists but does not parse; in neither case does it return an error.
C25_LoadFallsBackToDefault ==
    \A i \in 1..Len(returned) :
       LET call == returned[i]
       IN  (/\ call.op = "load_user_config"
            /\ call.undisturbed
            /\ \/ call.before.file = None
               \/ ~from_str(call.before.file[1]).ok)
              => /\ call.result.ok
                 /\ call.result = from_str(call.before.env.default_config[1])

\* C28: initialize_user_config creates the config file from the embedded
\* default only when there is none: an existing config file is never
\* overwritten, after a successful call the file exists, and a second call
\* changes nothing and returns the same path.
C28_InitializeCreatesOnlyWhenMissing ==
    /\ \A i \in 1..Len(returned) :
          LET call == returned[i]
          IN  call.op = "initialize_user_config" =>
                 /\ call.before.file # None => call.after.file = call.before.file
                 /\ call.result.ok =>
                       /\ call.after.dir
                       /\ call.after.file # None
                       /\ call.result = get_user_config_path(call.before.env)
                 /\ (call.result.ok /\ call.before.file = None)
                       => call.after.file = call.before.env.default_config
    /\ \A i \in 1..(Len(returned) - 1) :
          (/\ returned[i].op = "initialize_user_config"
           /\ returned[i + 1].op = "initialize_user_config"
           /\ returned[i].result.ok)
             => /\ returned[i + 1].after = returned[i + 1].before
                /\ returned[i + 1].result = returned[i].result

\* A first call creates the directory and config.json from the default; a
\* second call leaves both and returns the same path.
C28_Witness ==
    /\ Len(returned) = 2
    /\ returned[1].op = "initialize_user_config"
    /\ returned[2].op = "initialize_user_config"
    /\ returned[1].before.file = None
    /\ ~returned[1].before.dir
    /\ returned[1].result.ok
    /\ returned[1].after.file = Some(DefaultConfigText)
    /\ returned[2].result = returned[1].result
    /\ disk = returned[1].after

-----------------------------------------------------------------------------
\* The name holds the query somewhere, letter case ignored.
ContainsIgnoringCase(name, query) ==
    \E k \in 0..(Len(name) - Len(query)) :
       \A i \in 1..Len(query) : SameLetter(name[k + i], query[i])

\* The delegate's sections are the matching tasks grouped by task type.
Grouped(d) ==
    LET Matching(t) == ContainsIgnoringCase(t.name, d.query)
    IN  /\ Len(d.industries) = Len(d.matched_agent_tasks)
        /\ \A i, j \in 1..Len(d.industries) : d.industries[i] = d.industries[j] => i = j
        /\ \A i \in 1..Len(d.matched_agent_tasks) :
              LET InSection(t) == Matching(t) /\ t.task_type = d.industries[i]
              IN  /\ d.matched_agent_tasks[i] # <<>>
                  /\ \A j \in 1..Len(d.matched_agent_tasks[i]) :
                        d.matched_agent_tasks[i][j].task_type = d.industries[i]
                  /\ d.matched_agent_tasks[i] = SelectSeq(d.agent_tasks, InSection)
        /\ \A k \in 1..Len(d.agent_tasks) :
              Matching(d.agent_tasks[k]) =>
                 \E i \in 1..Len(d.industries) : d.industries[i] = d.agent_tasks[k].task_type

\* C30: after prepare(query), for any task set and any number of earlier
\* prepare calls, industries and matched_agent_tasks have equal length,
\* industries has no duplicates, no section is empty, every task of section
\* i has task type industries[i], the sections together hold exactly the
\* tasks whose name contains the query case-insensitively, each once and in
\* their original relative order, and preparing again with the same query
\* yields the same result.
C30_PrepareGroupsMatchingTasks ==
    [][/\ Grouped(delegate')
       /\ (delegate'.query = delegate.query /\ delegate'.agent_tasks = delegate.agent_tasks)
             => delegate' = delegate]_vars

\* Three tasks under the query "a": two match, in two sections, and the
\* one named "c" is left out.
C30_Witness ==
    /\ delegate.query = <<"a">>
    /\ Len(delegate.agent_tasks) = 3
    /\ delegate.agent_tasks[1].name = <<"A", "b">>
    /\ delegate.agent_tasks[2].name = <<"c">>
    /\ delegate.agent_tasks[3].name = <<"A", "b">>
    /\ delegate.industries = <<"Retail", "Finance">>
    /\ delegate.matched_agent_tasks =
          <<<<delegate.agent_tasks[1]>>, <<delegate.agent_tasks[3]>>>>

-----------------------------------------------------------------------------
\* The ToolCall event at position i names an id no earlier ToolCall event named.
NewIdAt(i) == IsToolCall(session_updates[i]) /\ ~DuplicateAt(i)

\* C26 (as stated): a ToolCall event for a new id creates the tool call in
\* the registry with the event's title, kind, status and content, and
\* appends to the transcript a ToolCallGroup item referencing that id.
C26_ToolCallGroupAppended ==
    \A i \in 1..Len(updates) :
       NewIdAt(i) =>
          /\ updates[i].element = "ToolCallGroup"
          /\ updates[i].items = <<session_updates[i].tool_call_id>>

ToolCallShown(elems) ==
    \A i \in 1..Len(elems) :
       NewIdAt(i) =>
          elems[i] = [element |-> "ToolCallDiv",
                      title |-> "Tool: " \o session_updates[i].title,
                      status |-> "Status: " \o session_updates[i].status]

ToolCallStepAppendsOne ==
    (Applying("ToolCall") /\ NewIdAt(Len(updates) + 1)) =>
        /\ Len(updates') = Len(updates) + 1
        /\ Prefix(updates, updates')
        /\ IsToolCallItem(updates'[Len(updates')])
        /\ children' = children

\* C26 (amended): a ToolCall event for a new id appends to the transcript one
\* element that shows the event's title and status and nothing else (neither
\* the id nor the kind nor the content; no registry entry is made), and the
\* elements already in the transcript are unchanged.
C26_ToolCallElementAppended ==
    /\ [](ToolCallShown(updates) /\ ToolCallShown(children))
    /\ [][ToolCallStepAppendsOne]_vars

\* [UserMessageChunk, Plan, ToolCall{t2, "Edit file", Pending}] rendered: the
\* message and the plan stand before the new tool-call element.
C26_Witness ==
    /\ pc = "idle"
    /\ Len(children) = 3
    /\ children[1].element = "UserMessage"
    /\ children[2].element = "AgentTodoList"
    /\ IsToolCallFor(session_updates[3], "t2")
    /\ children[3] = [element |-> "ToolCallDiv", title |-> "Tool: Edit file",
                      status |-> "Status: Pending"]

-----------------------------------------------------------------------------
IsThought(update) == update.sessionUpdate = "AgentThoughtChunk"

\* C27 (as stated): an AgentThoughtChunk event produces a transcript item of
\* its own kind, distinct from an AgentMessage item, and leaves the
\* tool-call items and the current plan unchanged.
C27_ThoughtItemProduced ==
    /\ Applying("AgentThoughtChunk") => ENABLED RenderNext
    /\ \A i \in 1..Len(updates) :
          IsThought(session_updates[i]) =>
             /\ updates[i].element = "ThoughtDiv"
             /\ ~IsMessageItem(updates[i])
             /\ list(updates) = list(SubSeq(updates, 1, i - 1)) \o list(SubSeq(updates, i + 1, Len(updates)))
             /\ CurrentPlan(SubSeq(updates, 1, i)) = CurrentPlan(SubSeq(updates, 1, i - 1))

====
